---- MODULE Spec2Model ----
(***************************************************************************)
(* Model of the procedural figure generator: the two generate_figure       *)
(* variants (generate_figures_simple.py: straight-line geometry,           *)
(* generate_figures.py: angle-based geometry) and the stroke rasteriser    *)
(* draw_antialiased_line they share.                                       *)
(*                                                                         *)
(* An image is modelled by its mode, its size and the log of the draw      *)
(* operations issued against it (polygon / ellipse, with their             *)
(* coordinates and fill).  Coordinates are integers in supersampled        *)
(* pixels; the float results of the trigonometry and of the normalised     *)
(* perpendicular are rounded to the nearest supersampled pixel.            *)
(***************************************************************************)
EXTENDS Integers, Sequences, FiniteSets, TLC

VARIABLES
    globals,            \* module-level names of the generator modules
    heap,               \* the image objects allocated so far
    variant,            \* per call: which generate_figure is running
    args,               \* per call: the arguments of the call
    pc,                 \* per call: position in generate_figure
    img,                \* per call: local img (index into heap, 0 = unbound)
    points,             \* per call: local points
    additional_points,  \* per call: local additional_points
    i,                  \* per call: index of the running for loop
    ret,                \* per call: returned image (index into heap, 0 = none)
    prog,               \* the script run from the command line ("none": a bare call)
    cli,                \* pipeline.py: the parsed command line (args)
    param_values,       \* a batch main: the value lists handed to product()
    count,              \* a batch main: count
    folder,             \* the figure folder on disk: [path, exists, files]
    main_pc,            \* position in main of the script run
    collage_cmd,        \* pipeline.py: collage_cmd once built, << >> before
    c_argv,             \* create_collages.py: sys.argv[1:]
    c_args,             \* create_collages.py: args
    c_pc,               \* create_collages.py: position in main
    c_grid,             \* create_collages.py: (cols, rows)
    image_files,        \* create_collages.py: image_files
    collage,            \* the collage file written, None-like record before
    returncode,         \* exit status of create_collages.py, -1 while running
    broken              \* the image files that raise in create_collage's try
                        \* block, and where: [path, at]

figureVars == <<globals, heap, variant, args, pc, img, points, additional_points, i, ret>>

mainVars == <<prog, cli, param_values, count, folder, main_pc, collage_cmd>>

collageVars == <<c_argv, c_args, c_pc, c_grid, image_files, collage, returncode,
                 broken>>

vars == <<globals, heap, variant, args, pc, img, points, additional_points, i, ret,
          prog, cli, param_values, count, folder, main_pc, collage_cmd,
          c_argv, c_args, c_pc, c_grid, image_files, collage, returncode,
          broken>>

----------------------------------------------------------------------------
(* Module-level constants of both generator modules.                       *)

CANVAS_WIDTH == 300
CANVAS_HEIGHT == 500
SCALE_FACTOR == 10
X_CENTER == 150

(* Bounds of the model: the largest value each argument is drawn from.     *)
MaxA == 100
MaxB == 50
MaxC == 50
MaxD == 20
MaxE == 20
MaxF == 20
MaxG == 15
MaxH == 15
MaxStrokeWidth == 3

CallIds == {1, 2}
Variants == {"simple", "angle"}
Colors == {"#000000", "#444444"}
GAngles == {0, 20}
YAngles == {0, 290}

----------------------------------------------------------------------------
(* Arithmetic helpers standing for Python's float arithmetic.              *)

\* n / m rounded to the nearest integer (m > 0)
RoundDiv(n, m) == (2 * n + m) \div (2 * m)

RECURSIVE FloorSqrt(_, _, _)
FloorSqrt(n, lo, hi) ==
    IF lo >= hi THEN lo
    ELSE CHOOSE r \in { IF mid * mid <= n THEN FloorSqrt(n, mid, hi)
                                           ELSE FloorSqrt(n, lo, mid - 1) :
                           mid \in {(lo + hi + 1) \div 2} } : TRUE

\* math.sqrt, rounded to the nearest integer
Sqrt(n) ==
    LET r == FloorSqrt(n, 0, 46340)
    IN  IF n - r * r > r THEN r + 1 ELSE r

\* sin of a first-quadrant angle, in thousandths
SinTable(deg) ==
    CASE deg = 0  -> 0
      [] deg = 20 -> 342
      [] deg = 30 -> 500
      [] deg = 35 -> 574
      [] deg = 40 -> 643
      [] deg = 45 -> 707
      [] deg = 50 -> 766
      [] deg = 55 -> 819
      [] deg = 60 -> 866
      [] deg = 70 -> 940
      [] deg = 90 -> 1000

\* math.sin(math.radians(deg)), in thousandths
Sin1000(deg) ==
    LET r == deg % 360
    IN  IF r <= 90 THEN SinTable(r)
        ELSE IF r <= 180 THEN SinTable(180 - r)
        ELSE IF r <= 270 THEN -SinTable(r - 180)
        ELSE -SinTable(360 - r)

\* math.cos(math.radians(deg)), in thousandths
Cos1000(deg) == Sin1000(deg + 90)

\* calculate_point_from_angle with the angle measured from the horizontal
PointFromHorizontalAngle(start_x, start_y, angle_degrees, distance) ==
    << start_x + RoundDiv(distance * Cos1000(angle_degrees), 1000),
       start_y + RoundDiv(distance * Sin1000(angle_degrees), 1000) >>

calculate_point_from_angle(start_x, start_y, angle_degrees, distance) ==
    << start_x + RoundDiv(distance * Sin1000(angle_degrees), 1000),
       start_y + RoundDiv(distance * Cos1000(angle_degrees), 1000) >>

----------------------------------------------------------------------------
(* Draw operations.  A draw operation is a record: kind ("polygon" or      *)
(* "ellipse"), pts (the polygon's corners, or the ellipse's bounding box   *)
(* as <<left_up, right_down>>), fill, and site, the statement of           *)
(* generate_figure that issued it.                                         *)

Op(kind, pts, fill) == [kind |-> kind, pts |-> pts, fill |-> fill, site |-> "none"]

At(ops, site) ==
    [k \in 1..Len(ops) |->
        [kind |-> ops[k].kind, pts |-> ops[k].pts, fill |-> ops[k].fill, site |-> site]]

\* draw_antialiased_line without the early return on length == 0
DrawLineNoSkip(x1, y1, x2, y2, width, color) ==
    LET dx == x2 - x1
        dy == y2 - y1
        length == Sqrt(dx * dx + dy * dy)
        px == IF length = 0 THEN 0 ELSE RoundDiv((-dy) * width, 2 * length)
        py == IF length = 0 THEN 0 ELSE RoundDiv(dx * width, 2 * length)
    IN  << Op("polygon",
              << <<x1 + px, y1 + py>>, <<x1 - px, y1 - py>>,
                 <<x2 - px, y2 - py>>, <<x2 + px, y2 + py>> >>,
              color) >>

\* draw_antialiased_line listing the corners P1+p, P1-p, P2+p, P2-p
DrawLineCrossed(x1, y1, x2, y2, width, color) ==
    LET dx == x2 - x1
        dy == y2 - y1
        length == Sqrt(dx * dx + dy * dy)
    IN  IF length = 0 THEN << >>
        ELSE LET px == RoundDiv((-dy) * width, 2 * length)
                 py == RoundDiv(dx * width, 2 * length)
             IN  << Op("polygon",
                       << <<x1 + px, y1 + py>>, <<x1 - px, y1 - py>>,
                          <<x2 + px, y2 + py>>, <<x2 - px, y2 - py>> >>,
                       color) >>

\* draw_antialiased_line: the draw operations one call issues
draw_antialiased_line(x1, y1, x2, y2, width, color) ==
    LET dx == x2 - x1
        dy == y2 - y1
        length == Sqrt(dx * dx + dy * dy)
    IN  IF length = 0 THEN << >>
        ELSE LET px == RoundDiv((-dy) * width, 2 * length)
                 py == RoundDiv(dx * width, 2 * length)
             IN  << Op("polygon",
                       << <<x1 + px, y1 + py>>, <<x1 - px, y1 - py>>,
                          <<x2 - px, y2 - py>>, <<x2 + px, y2 + py>> >>,
                       color) >>

\* JointDisc with the vertex as the upper left corner of the bounding box
JointDiscCorner(point, stroke_scaled, color) ==
    LET left_up == <<point[1], point[2]>>
        right_down == <<point[1] + stroke_scaled, point[2] + stroke_scaled>>
    IN  Op("ellipse", <<left_up, right_down>>, color)

\* JointDisc with the stroke width as radius instead of diameter
JointDiscRadius(point, stroke_scaled, color) ==
    LET left_up == <<point[1] - stroke_scaled, point[2] - stroke_scaled>>
        right_down == <<point[1] + stroke_scaled, point[2] + stroke_scaled>>
    IN  Op("ellipse", <<left_up, right_down>>, color)

\* JointDisc nudged by the number of images allocated so far (shared state)
JointDiscJitter(point, stroke_scaled, color) ==
    LET left_up == <<point[1] - stroke_scaled \div 2 + (Len(heap) % 2),
                     point[2] - stroke_scaled \div 2>>
        right_down == <<point[1] + stroke_scaled \div 2 + (Len(heap) % 2),
                        point[2] + stroke_scaled \div 2>>
    IN  Op("ellipse", <<left_up, right_down>>, color)

\* the joint disc of generate_figure's two "circles at joints" loops
JointDisc(point, stroke_scaled, color) ==
    LET left_up == <<point[1] - stroke_scaled \div 2, point[2] - stroke_scaled \div 2>>
        right_down == <<point[1] + stroke_scaled \div 2, point[2] + stroke_scaled \div 2>>
    IN  Op("ellipse", <<left_up, right_down>>, color)

----------------------------------------------------------------------------
(* Geometry of the two generate_figure variants.                           *)

Scaled(v) == v * globals.SCALE_FACTOR

x_center == X_CENTER * globals.SCALE_FACTOR

\* MainPathSimple with step 6 ending at the height it started from
MainPathSimpleFlatStep6(ar) ==
    LET a_scaled == Scaled(ar.a)
        b_scaled == Scaled(ar.b)
        c_scaled == Scaled(ar.c)
        d_scaled == Scaled(ar.d)
    IN  << <<x_center, 0>>,
           <<x_center, a_scaled>>,
           <<x_center + c_scaled, a_scaled + b_scaled>>,
           <<x_center, a_scaled + b_scaled>>,
           <<x_center, a_scaled + b_scaled + c_scaled>>,
           <<x_center - d_scaled, a_scaled + b_scaled + c_scaled>>,
           <<x_center, a_scaled + b_scaled + c_scaled>>,
           <<x_center, globals.CANVAS_HEIGHT * globals.SCALE_FACTOR>> >>

\* generate_figures_simple.generate_figure: the main path
MainPathSimple(ar) ==
    LET a_scaled == Scaled(ar.a)
        b_scaled == Scaled(ar.b)
        c_scaled == Scaled(ar.c)
        d_scaled == Scaled(ar.d)
    IN  << <<x_center, 0>>,
           <<x_center, a_scaled>>,
           <<x_center + c_scaled, a_scaled + b_scaled>>,
           <<x_center, a_scaled + b_scaled>>,
           <<x_center, a_scaled + b_scaled + c_scaled>>,
           <<x_center - d_scaled, a_scaled + b_scaled + c_scaled>>,
           <<x_center, a_scaled + b_scaled + c_scaled + d_scaled>>,
           <<x_center, globals.CANVAS_HEIGHT * globals.SCALE_FACTOR>> >>

\* generate_figures_simple.generate_figure: the additional strokes
AdditionalPathSimple(ar) ==
    LET a_scaled == Scaled(ar.a)
        e_scaled == Scaled(ar.e)
        f_scaled == Scaled(ar.f)
        g_scaled == Scaled(ar.g)
        point_a == <<x_center - e_scaled, a_scaled>>
        point_b == <<x_center - e_scaled - f_scaled, a_scaled>>
        point_c == <<x_center - e_scaled, a_scaled + g_scaled>>
    IN  <<point_a, point_b, point_c>>

\* MainPathAngle without the snap back to the midline (step 3)
MainPathAngleNoSnapBack(ar) ==
    LET a_scaled == Scaled(ar.a)
        b_scaled == Scaled(ar.b)
        c_scaled == Scaled(ar.c)
        d_scaled == Scaled(ar.d)
        q == Sqrt(d_scaled * d_scaled + b_scaled * b_scaled)
        end == calculate_point_from_angle(x_center, a_scaled, ar.g, q)
        end2 == calculate_point_from_angle(x_center - d_scaled,
                                           a_scaled + b_scaled + c_scaled,
                                           -ar.y, d_scaled)
    IN  << <<x_center, 0>>,
           <<x_center, a_scaled>>,
           <<end[1], end[2]>>,
           <<x_center, a_scaled + b_scaled + c_scaled>>,
           <<x_center - d_scaled, a_scaled + b_scaled + c_scaled>>,
           <<end2[1], end2[2]>>,
           <<end2[1], globals.CANVAS_HEIGHT * globals.SCALE_FACTOR>> >>

\* MainPathAngle turning by +y instead of -y in step 6
MainPathAngleTurnLeft(ar) ==
    LET a_scaled == Scaled(ar.a)
        b_scaled == Scaled(ar.b)
        c_scaled == Scaled(ar.c)
        d_scaled == Scaled(ar.d)
        q == Sqrt(d_scaled * d_scaled + b_scaled * b_scaled)
        end == calculate_point_from_angle(x_center, a_scaled, ar.g, q)
        end2 == calculate_point_from_angle(x_center - d_scaled,
                                           a_scaled + b_scaled + c_scaled,
                                           ar.y, d_scaled)
    IN  << <<x_center, 0>>,
           <<x_center, a_scaled>>,
           <<end[1], end[2]>>,
           <<x_center, end[2]>>,
           <<x_center, a_scaled + b_scaled + c_scaled>>,
           <<x_center - d_scaled, a_scaled + b_scaled + c_scaled>>,
           <<end2[1], end2[2]>>,
           <<end2[1], globals.CANVAS_HEIGHT * globals.SCALE_FACTOR>> >>

\* generate_figures.generate_figure: the main path
MainPathAngle(ar) ==
    LET a_scaled == Scaled(ar.a)
        b_scaled == Scaled(ar.b)
        c_scaled == Scaled(ar.c)
        d_scaled == Scaled(ar.d)
        q == Sqrt(d_scaled * d_scaled + b_scaled * b_scaled)
        end == calculate_point_from_angle(x_center, a_scaled, ar.g, q)
        end2 == calculate_point_from_angle(x_center - d_scaled,
                                           a_scaled + b_scaled + c_scaled,
                                           -ar.y, d_scaled)
    IN  << <<x_center, 0>>,
           <<x_center, a_scaled>>,
           <<end[1], end[2]>>,
           <<x_center, end[2]>>,
           <<x_center, a_scaled + b_scaled + c_scaled>>,
           <<x_center - d_scaled, a_scaled + b_scaled + c_scaled>>,
           <<end2[1], end2[2]>>,
           <<end2[1], globals.CANVAS_HEIGHT * globals.SCALE_FACTOR>> >>

\* AdditionalPathAngle reading g, the name the simple variant uses, for h
AdditionalPathAngleG(ar) ==
    LET a_scaled == Scaled(ar.a)
        e_scaled == Scaled(ar.e)
        f_scaled == Scaled(ar.f)
        h_scaled == Scaled(ar.g)
        point_a == <<x_center - e_scaled, a_scaled>>
        point_b == <<x_center - e_scaled - f_scaled, a_scaled>>
        point_c == <<x_center - e_scaled, a_scaled + h_scaled>>
    IN  <<point_a, point_b, point_c>>

\* generate_figures.generate_figure: the additional strokes
AdditionalPathAngle(ar) ==
    LET a_scaled == Scaled(ar.a)
        e_scaled == Scaled(ar.e)
        f_scaled == Scaled(ar.f)
        h_scaled == Scaled(ar.h)
        point_a == <<x_center - e_scaled, a_scaled>>
        point_b == <<x_center - e_scaled - f_scaled, a_scaled>>
        point_c == <<x_center - e_scaled, a_scaled + h_scaled>>
    IN  <<point_a, point_b, point_c>>

\* stroke_scaled of a call
StrokeScaled(p) == Scaled(args[p].stroke_width)

\* every draw statement leaving the fill at draw_antialiased_line's default
StrokeFillDefault(p) == "black"

\* the fill every draw statement of a call passes
StrokeFill(p) == IF variant[p] = "simple" THEN args[p].stroke_color ELSE "black"

----------------------------------------------------------------------------
(* Images.                                                                 *)

\* Image.new / Image.resize: a new image object
NewImage(mode, size, ops) == [mode |-> mode, size |-> size, ops |-> ops]

\* the index of the next image object
FreshImage == Len(heap) + 1

\* size of the supersampled working canvas
WorkingSize ==
    << globals.CANVAS_WIDTH * globals.SCALE_FACTOR,
       globals.CANVAS_HEIGHT * globals.SCALE_FACTOR >>

\* FinalSize with width and height swapped
FinalSizeSwapped == << globals.CANVAS_HEIGHT, globals.CANVAS_WIDTH >>

\* size of the downsampled and of the returned image
FinalSize == << globals.CANVAS_WIDTH, globals.CANVAS_HEIGHT >>

\* every call drawing on one module-level canvas, the first image allocated
DrawTargetShared(p) == 1

\* the canvas a draw statement of call p writes to
DrawTarget(p) == img[p]

\* draw.polygon / draw.ellipse: the operations land on canvas k
Draw(k, ops) == [heap EXCEPT ![k].ops = @ \o ops]

----------------------------------------------------------------------------
(* Arguments.                                                              *)

SimpleArgs ==
    [a : {0, MaxA \div 2, MaxA}, b : {0, MaxB \div 2, MaxB},
     c : {0, MaxC \div 2, MaxC}, d : {0, MaxD \div 2, MaxD},
     e : {0, MaxE}, f : {0, MaxF}, g : {0, MaxG}, y : {0}, h : {0},
     stroke_width : {0, MaxStrokeWidth}, stroke_color : Colors]

AngleArgs ==
    [a : {0, MaxA \div 2, MaxA}, b : {0, MaxB \div 2, MaxB},
     c : {0, MaxC \div 2, MaxC}, d : {0, MaxD \div 2, MaxD},
     e : {0, MaxE}, f : {0, MaxF}, g : GAngles, y : YAngles, h : {0, MaxH},
     stroke_width : {0, MaxStrokeWidth}, stroke_color : {"black"}]

\* the angle variant with matched and unmatched (g, d, b) and several turns y
TrigLengths == {0, MaxD \div 2, MaxD, MaxB}
TrigGAngles == {0, 20, 45, 90, 180}
TrigYAngles == {0, 90, 270, 290, 320}

TrigArgs ==
    [a : {0, MaxA}, b : TrigLengths, c : {0, MaxC}, d : TrigLengths,
     e : {MaxE}, f : {MaxF}, g : TrigGAngles, y : TrigYAngles, h : {MaxH},
     stroke_width : {MaxStrokeWidth}, stroke_color : {"black"}]

ArgsOf(v) == IF v = "simple" THEN SimpleArgs ELSE AngleArgs

NoArgs ==
    [a |-> 0, b |-> 0, c |-> 0, d |-> 0, e |-> 0, f |-> 0, g |-> 0, y |-> 0,
     h |-> 0, stroke_width |-> 0, stroke_color |-> "black"]

\* the inputs two concurrent calls are drawn from
ConcArgs(v) ==
    { ar \in ArgsOf(v) :
        /\ ar.stroke_width = MaxStrokeWidth
        /\ \/ /\ ar.a = MaxA /\ ar.b = MaxB /\ ar.c = MaxC /\ ar.d = MaxD
              /\ ar.e = MaxE /\ ar.f = MaxF
              /\ ar.g = (IF v = "simple" THEN MaxG ELSE 20)
              /\ ar.y = (IF v = "simple" THEN 0 ELSE 290)
              /\ ar.h = (IF v = "simple" THEN 0 ELSE MaxH)
              /\ ar.stroke_color \in {"#000000", "black"}
           \/ /\ ar.a = 0 /\ ar.b = 0 /\ ar.c = MaxC /\ ar.d = 0
              /\ ar.e = 0 /\ ar.f = MaxF /\ ar.g = 0 /\ ar.y = 0 /\ ar.h = 0
              /\ ar.stroke_color \in {"#444444", "black"} }

----------------------------------------------------------------------------
(* Python strings.  A string is a TLA+ string; Len, \o and SubSeq act on   *)
(* it character by character.                                             *)

Ch(s, k) == SubSeq(s, k, k)

From(s, k) == SubSeq(s, k, Len(s))

\* s.find(c) + 1 for a one-character c: the first position of c in s, or 0
Find(s, c) ==
    IF \E k \in 1..Len(s) : Ch(s, k) = c
    THEN CHOOSE k \in 1..Len(s) : Ch(s, k) = c /\ \A j \in 1..(k - 1) : Ch(s, j) # c
    ELSE 0

\* sub in s
Contains(s, sub) ==
    \E k \in 1..(Len(s) - Len(sub) + 1) : SubSeq(s, k, k + Len(sub) - 1) = sub

startswith(s, prefix) ==
    Len(prefix) <= Len(s) /\ SubSeq(s, 1, Len(prefix)) = prefix

endswith(s, suffix) ==
    Len(suffix) <= Len(s) /\ SubSeq(s, Len(s) - Len(suffix) + 1, Len(s)) = suffix

UpperCase == "ABCDEFGHIJKLMNOPQRSTUVWXYZ"
LowerCase == "abcdefghijklmnopqrstuvwxyz"
DigitChars == "0123456789"
Whitespace == " "

RECURSIVE lower(_)
lower(s) ==
    IF s = "" THEN ""
    ELSE LET k == Find(UpperCase, Ch(s, 1))
         IN  (IF k = 0 THEN Ch(s, 1) ELSE Ch(LowerCase, k)) \o lower(From(s, 2))

RECURSIVE split(_, _)
split(s, sep) ==
    LET k == Find(s, sep)
    IN  IF k = 0 THEN << s >>
        ELSE << SubSeq(s, 1, k - 1) >> \o split(From(s, k + 1), sep)

RECURSIVE lstrip(_)
lstrip(s) ==
    IF s # "" /\ Find(Whitespace, Ch(s, 1)) # 0 THEN lstrip(From(s, 2)) ELSE s

RECURSIVE rstrip(_)
rstrip(s) ==
    IF s # "" /\ Find(Whitespace, Ch(s, Len(s))) # 0
    THEN rstrip(SubSeq(s, 1, Len(s) - 1)) ELSE s

strip(s) == rstrip(lstrip(s))

\* os.path.basename: what follows the last slash
RECURSIVE basename(_)
basename(path) ==
    LET k == Find(path, "/")
    IN  IF k = 0 THEN path ELSE basename(From(path, k + 1))

\* str(n) of an integer
RECURSIVE StrNat(_)
StrNat(n) ==
    IF n < 10 THEN Ch(DigitChars, n + 1)
    ELSE StrNat(n \div 10) \o Ch(DigitChars, (n % 10) + 1)

str(n) == IF n < 0 THEN "-" \o StrNat(-n) ELSE StrNat(n)

\* the value of a run of decimal digits, single underscores allowed between them
RECURSIVE DigitsValue(_, _)
DigitsValue(s, acc) ==
    IF s = "" THEN acc
    ELSE IF Ch(s, 1) = "_" THEN DigitsValue(From(s, 2), acc)
    ELSE DigitsValue(From(s, 2), 10 * acc + (Find(DigitChars, Ch(s, 1)) - 1))

IsDigits(s) ==
    /\ s # ""
    /\ \A k \in 1..Len(s) :
          \/ Find(DigitChars, Ch(s, k)) # 0
          \/ /\ Ch(s, k) = "_" /\ 1 < k /\ k < Len(s)
             /\ Find(DigitChars, Ch(s, k - 1)) # 0

\* int(s): surrounding whitespace, an optional sign, decimal digits;
\* anything else raises ValueError
int(s) ==
    LET t == strip(s)
        signed == t # "" /\ Ch(t, 1) \in {"+", "-"}
        body == IF signed THEN From(t, 2) ELSE t
    IN  IF ~IsDigits(body) THEN [raised |-> "ValueError", value |-> 0]
        ELSE [raised |-> "",
              value |-> IF signed /\ Ch(t, 1) = "-" THEN -DigitsValue(body, 0)
                        ELSE DigitsValue(body, 0)]

\* an optional value: None, or a string
None == [some |-> FALSE, val |-> ""]
Some(s) == [some |-> TRUE, val |-> s]

\* truth value of an optional string: None and the empty string are false
Truthy(opt) == opt.some /\ opt.val # ""

----------------------------------------------------------------------------
(* create_collages.py: parse_grid_size and filter_images_by_params.        *)

\* parse_grid_size accepting zero dimensions
GridRejectedNegative(cols, rows) == cols < 0 \/ rows < 0

\* if cols <= 0 or rows <= 0: raise ValueError
GridRejected(cols, rows) == cols <= 0 \/ rows <= 0

parse_grid_size(grid_str) ==
    LET parts == split(lower(grid_str), "x")
        ValueError == [raised |-> "ValueError", value |-> <<0, 0>>]
    IN  IF Len(parts) # 2 THEN ValueError
        ELSE LET cols == int(parts[1]) IN
             IF cols.raised # "" THEN ValueError
             ELSE LET rows == int(parts[2]) IN
                  IF rows.raised # "" THEN ValueError
                  ELSE IF GridRejected(cols.value, rows.value) THEN ValueError
                  ELSE [raised |-> "", value |-> <<cols.value, rows.value>>]

\* the filter token itself as the pattern
FilterPatternBare(filter_str) == filter_str

\* pattern = f"_{filter_str}_"
FilterPattern(filter_str) == "_" \o filter_str \o "_"

\* pattern_end = f"_{filter_str}."
FilterPatternEnd(filter_str) == "_" \o filter_str \o "."

\* the inner for loop with its break: does the file name match every filter
RECURSIVE FilterMatch(_, _)
FilterMatch(filename, filters) ==
    IF filters = << >> THEN TRUE
    ELSE IF /\ ~Contains(filename, FilterPattern(Head(filters)))
            /\ ~Contains(filename, FilterPatternEnd(Head(filters)))
         THEN FALSE
         ELSE FilterMatch(filename, Tail(filters))

\* the outer for loop appending to filtered_images
RECURSIVE FilterLoop(_, _)
FilterLoop(image_paths, filters) ==
    IF image_paths = << >> THEN << >>
    ELSE (IF FilterMatch(basename(Head(image_paths)), filters)
          THEN << Head(image_paths) >> ELSE << >>)
         \o FilterLoop(Tail(image_paths), filters)

filter_images_by_params(image_paths, filter_params) ==
    IF ~Truthy(filter_params) THEN image_paths
    ELSE LET parts == split(filter_params.val, ",")
             filters == [k \in 1..Len(parts) |-> strip(parts[k])]
         IN  FilterLoop(image_paths, filters)

----------------------------------------------------------------------------
(* The scripts: values of their variables while none of them runs.         *)

\* pipeline.py without a command line
NoCli ==
    [a |-> None, b |-> None, c |-> None, d |-> None, e |-> None, f |-> None,
     g |-> None, stroke_width |-> None, stroke_color |-> None,
     output_folder |-> "", collage_output |-> "./collages",
     skip_generation |-> FALSE, skip_collage |-> FALSE,
     grid_size |-> None, flip |-> 0, select_only_from |-> None]

\* create_collages.py: the defaults of its options
DefaultNamespace ==
    [grid_size |-> None, images_folder |-> None, output_folder |-> "./collages",
     flip_hor |-> 0, flip_ver |-> 0, select_only_from |-> None,
     error |-> FALSE, help |-> FALSE]

NoFile == [name |-> "", size |-> <<0, 0>>, cols |-> 0, rows |-> 0, cells |-> << >>]

NoFolder == [path |-> "", exists |-> FALSE, files |-> << >>]

CollageIdle ==
    /\ c_argv = << >>
    /\ c_args = DefaultNamespace
    /\ c_pc = "idle"
    /\ c_grid = <<0, 0>>
    /\ image_files = << >>
    /\ collage = NoFile
    /\ returncode = -1
    /\ broken = {}

\* generate_figure called on its own: no script runs
NoScript ==
    /\ prog = "none"
    /\ cli = NoCli
    /\ param_values = << >>
    /\ count = 0
    /\ folder = NoFolder
    /\ main_pc = "idle"
    /\ collage_cmd = << >>
    /\ CollageIdle

----------------------------------------------------------------------------
(* generate_figure, one action per statement group / loop iteration.       *)

InitGlobals ==
    [CANVAS_WIDTH |-> CANVAS_WIDTH, CANVAS_HEIGHT |-> CANVAS_HEIGHT,
     SCALE_FACTOR |-> SCALE_FACTOR]

InitLocals ==
    /\ globals = InitGlobals
    /\ heap = << >>
    /\ img = [p \in CallIds |-> 0]
    /\ points = [p \in CallIds |-> << >>]
    /\ additional_points = [p \in CallIds |-> << >>]
    /\ i = [p \in CallIds |-> 0]
    /\ ret = [p \in CallIds |-> 0]

\* one call of generate_figure
Init ==
    /\ InitLocals
    /\ NoScript
    /\ pc = [p \in CallIds |-> IF p = 1 THEN "start" ELSE "idle"]
    /\ \E v \in Variants : \E ar \in ArgsOf(v) :
          /\ variant = [p \in CallIds |-> IF p = 1 THEN v ELSE "simple"]
          /\ args = [p \in CallIds |-> IF p = 1 THEN ar ELSE NoArgs]

\* one call of the angle variant of generate_figure
InitAngle ==
    /\ InitLocals
    /\ NoScript
    /\ pc = [p \in CallIds |-> IF p = 1 THEN "start" ELSE "idle"]
    /\ \E ar \in TrigArgs :
          /\ variant = [p \in CallIds |-> IF p = 1 THEN "angle" ELSE "simple"]
          /\ args = [p \in CallIds |-> IF p = 1 THEN ar ELSE NoArgs]

\* two calls of generate_figure on two threads
InitConc ==
    /\ InitLocals
    /\ NoScript
    /\ pc = [p \in CallIds |-> "start"]
    /\ \E v1 \in Variants, v2 \in Variants :
          \E ar1 \in ConcArgs(v1), ar2 \in ConcArgs(v2) :
             /\ variant = [p \in CallIds |-> IF p = 1 THEN v1 ELSE v2]
             /\ args = [p \in CallIds |-> IF p = 1 THEN ar1 ELSE ar2]

\* the drawing loops path by path: main lines, main joints, then the additional ones
NextPhasePathwise(ph) ==
    CASE ph = "main_lines"        -> "main_joints"
      [] ph = "main_joints"       -> "additional_lines"
      [] ph = "additional_lines"  -> "additional_joints"
      [] ph = "additional_joints" -> "resize"

\* the order of the four drawing loops of generate_figure
NextPhase(ph) ==
    CASE ph = "main_lines"        -> "additional_lines"
      [] ph = "additional_lines"  -> "main_joints"
      [] ph = "main_joints"       -> "additional_joints"
      [] ph = "additional_joints" -> "resize"

\* img = Image.new('RGBA', (CANVAS_WIDTH * SCALE_FACTOR, ...)); draw = ImageDraw.Draw(img)
Alloc(p) ==
    /\ pc[p] = "start"
    /\ heap' = Append(heap, NewImage("RGBA", WorkingSize, << >>))
    /\ img' = [img EXCEPT ![p] = FreshImage]
    /\ pc' = [pc EXCEPT ![p] = "build"]
    /\ UNCHANGED <<mainVars, collageVars, globals, variant, args, points, additional_points, i, ret>>

\* scale the parameters, build points and additional_points
BuildPath(p) ==
    /\ pc[p] = "build"
    /\ points' = [points EXCEPT ![p] =
                    IF variant[p] = "simple" THEN MainPathSimple(args[p])
                                             ELSE MainPathAngle(args[p])]
    /\ additional_points' = [additional_points EXCEPT ![p] =
                    IF variant[p] = "simple" THEN AdditionalPathSimple(args[p])
                                             ELSE AdditionalPathAngle(args[p])]
    /\ i' = [i EXCEPT ![p] = 1]
    /\ pc' = [pc EXCEPT ![p] = "main_lines"]
    /\ UNCHANGED <<mainVars, collageVars, globals, heap, variant, args, img, ret>>

\* for i in range(len(points) - 1): draw_antialiased_line(points[i], points[i+1])
DrawMainLine(p) ==
    /\ pc[p] = "main_lines"
    /\ heap' = Draw(DrawTarget(p),
                    At(draw_antialiased_line(points[p][i[p]][1], points[p][i[p]][2],
                                             points[p][i[p] + 1][1], points[p][i[p] + 1][2],
                                             StrokeScaled(p), StrokeFill(p)),
                       "main_line"))
    /\ IF i[p] + 1 < Len(points[p])
       THEN /\ i' = [i EXCEPT ![p] = @ + 1]
            /\ pc' = pc
       ELSE /\ i' = [i EXCEPT ![p] = 1]
            /\ pc' = [pc EXCEPT ![p] = NextPhase("main_lines")]
    /\ UNCHANGED <<mainVars, collageVars, globals, variant, args, img, points, additional_points, ret>>

\* the two draw_antialiased_line calls of the additional strokes
DrawAdditionalLine(p) ==
    /\ pc[p] = "additional_lines"
    /\ heap' = Draw(DrawTarget(p),
                    At(draw_antialiased_line(additional_points[p][i[p]][1],
                                             additional_points[p][i[p]][2],
                                             additional_points[p][i[p] + 1][1],
                                             additional_points[p][i[p] + 1][2],
                                             StrokeScaled(p), StrokeFill(p)),
                       "additional_line"))
    /\ IF i[p] < 2
       THEN /\ i' = [i EXCEPT ![p] = @ + 1]
            /\ pc' = pc
       ELSE /\ i' = [i EXCEPT ![p] = 1]
            /\ pc' = [pc EXCEPT ![p] = NextPhase("additional_lines")]
    /\ UNCHANGED <<mainVars, collageVars, globals, variant, args, img, points, additional_points, ret>>

\* for point in points: draw.ellipse(...)
DrawMainJoint(p) ==
    /\ pc[p] = "main_joints"
    /\ heap' = Draw(DrawTarget(p),
                    At(<< JointDisc(points[p][i[p]], StrokeScaled(p), StrokeFill(p)) >>,
                       "main_joint"))
    /\ IF i[p] < Len(points[p])
       THEN /\ i' = [i EXCEPT ![p] = @ + 1]
            /\ pc' = pc
       ELSE /\ i' = [i EXCEPT ![p] = 1]
            /\ pc' = [pc EXCEPT ![p] = NextPhase("main_joints")]
    /\ UNCHANGED <<mainVars, collageVars, globals, variant, args, img, points, additional_points, ret>>

\* for point in additional_points: draw.ellipse(...)
DrawAdditionalJoint(p) ==
    /\ pc[p] = "additional_joints"
    /\ heap' = Draw(DrawTarget(p),
                    At(<< JointDisc(additional_points[p][i[p]], StrokeScaled(p),
                                    StrokeFill(p)) >>,
                       "additional_joint"))
    /\ IF i[p] < Len(additional_points[p])
       THEN /\ i' = [i EXCEPT ![p] = @ + 1]
            /\ pc' = pc
       ELSE /\ i' = [i EXCEPT ![p] = 1]
            /\ pc' = [pc EXCEPT ![p] = NextPhase("additional_joints")]
    /\ UNCHANGED <<mainVars, collageVars, globals, variant, args, img, points, additional_points, ret>>

\* img = img.resize((CANVAS_WIDTH, CANVAS_HEIGHT), Image.LANCZOS)
Resize(p) ==
    /\ pc[p] = "resize"
    /\ heap' = Append(heap, NewImage(heap[img[p]].mode, FinalSize, heap[img[p]].ops))
    /\ img' = [img EXCEPT ![p] = FreshImage]
    /\ pc' = [pc EXCEPT ![p] = "convert"]
    /\ UNCHANGED <<mainVars, collageVars, globals, variant, args, points, additional_points, i, ret>>

\* rgb_img = Image.new('RGB', ...); rgb_img.paste(img, mask=...); return rgb_img
ConvertAndReturn(p) ==
    /\ pc[p] = "convert"
    /\ heap' = Append(heap, NewImage("RGB", FinalSize, heap[img[p]].ops))
    /\ ret' = [ret EXCEPT ![p] = FreshImage]
    /\ pc' = [pc EXCEPT ![p] = "done"]
    /\ UNCHANGED <<mainVars, collageVars, globals, variant, args, img, points, additional_points, i>>

Next ==
    \E p \in CallIds :
        \/ Alloc(p)
        \/ BuildPath(p)
        \/ DrawMainLine(p)
        \/ DrawAdditionalLine(p)
        \/ DrawMainJoint(p)
        \/ DrawAdditionalJoint(p)
        \/ Resize(p)
        \/ ConvertAndReturn(p)

Spec == Init /\ [][Next]_vars

SpecConc == InitConc /\ [][Next]_vars

SpecAngle == InitAngle /\ [][Next]_vars

----------------------------------------------------------------------------
(* The batch loops of generate_figures.main, generate_figures_simple.main  *)
(* and pipeline.main.                                                      *)

\* a float with one decimal, held as its number of tenths: float(s) and str(x)
float(s) ==
    LET k == Find(s, ".")
        whole == IF k = 0 THEN int(s) ELSE int(SubSeq(s, 1, k - 1))
        frac == IF k = 0 THEN 0 ELSE Find(DigitChars, Ch(s, k + 1)) - 1
    IN  IF whole.raised # "" \/ (k # 0 /\ (Len(s) # k + 1 \/ frac < 0))
        THEN [raised |-> "ValueError", value |-> 0]
        ELSE [raised |-> "", value |-> 10 * whole.value + frac]

str_float(x) == str(x \div 10) \o "." \o str(x % 10)

\* f"{x:.2f}"
format_2f(x) == str_float(x) \o "0"

\* s.replace(old, new) for a one-character old
RECURSIVE replace(_, _, _)
replace(s, old, new) ==
    IF s = "" THEN ""
    ELSE (IF Ch(s, 1) = old THEN new ELSE Ch(s, 1)) \o replace(From(s, 2), old, new)

\* parse_range_param: a comma-separated string as a list of integers
\* (as_int) or of strings; an entry int() rejects raises ValueError
parse_range_param(param_str, as_int) ==
    LET parts == split(param_str, ",")
        values == [k \in 1..Len(parts) |-> strip(parts[k])]
    IN  IF as_int THEN [k \in 1..Len(values) |-> int(values[k]).value] ELSE values

\* the number of combinations of the lists from position j on
RECURSIVE CombinationsFrom(_, _)
CombinationsFrom(lists, j) ==
    IF j > Len(lists) THEN 1 ELSE Len(lists[j]) * CombinationsFrom(lists, j + 1)

\* itertools.product(*param_values): the k-th combination takes from list j
\* the entry an odometer shows there, the last list varying fastest
product(lists) ==
    [k \in 1..CombinationsFrom(lists, 1) |->
        [j \in 1..Len(lists) |->
            lists[j][(((k - 1) \div CombinationsFrom(lists, j + 1)) % Len(lists[j])) + 1]]]

\* the generate_figure a script imports
VariantOf(script) == IF script = "generate_figures" THEN "angle" ELSE "simple"

\* a, b, ... = combination
Unpack(script, combination) ==
    IF VariantOf(script) = "simple"
    THEN [a |-> combination[1], b |-> combination[2], c |-> combination[3],
          d |-> combination[4], e |-> combination[5], f |-> combination[6],
          g |-> combination[7], y |-> 0, h |-> 0,
          stroke_width |-> combination[8], stroke_color |-> combination[9]]
    ELSE [a |-> combination[1], b |-> combination[2], g |-> combination[3],
          c |-> combination[4], y |-> combination[5], d |-> combination[6],
          e |-> combination[7], f |-> combination[8], h |-> combination[9],
          stroke_width |-> combination[10], stroke_color |-> "black"]

\* filename = f"fig_a{a}_b{b}_..."
Filename(script, ar) ==
    IF VariantOf(script) = "simple"
    THEN "fig_a" \o str(ar.a) \o "_b" \o str(ar.b) \o "_c" \o str(ar.c)
         \o "_d" \o str(ar.d) \o "_e" \o str(ar.e) \o "_f" \o str(ar.f)
         \o "_g" \o str(ar.g) \o "_w" \o str(ar.stroke_width)
         \o "_col" \o replace(ar.stroke_color, "#", "") \o ".png"
    ELSE "fig_a" \o str(ar.a) \o "_b" \o str(ar.b) \o "_g" \o str(ar.g)
         \o "_c" \o str(ar.c) \o "_y" \o str(ar.y) \o "_d" \o str(ar.d)
         \o "_e" \o str(ar.e) \o "_f" \o str(ar.f) \o "_h" \o str(ar.h)
         \o "_w" \o str(ar.stroke_width) \o ".png"

\* draw_antialiased_line dividing by length whatever its value
DrawLineRaisesNoSkip(x1, y1, x2, y2) ==
    LET dx == x2 - x1
        dy == y2 - y1
    IN  Sqrt(dx * dx + dy * dy) = 0

\* draw_antialiased_line raises ZeroDivisionError: the division by length
\* is reached, past the early return, with length == 0
draw_antialiased_line_raises(x1, y1, x2, y2) ==
    LET dx == x2 - x1
        dy == y2 - y1
        length == Sqrt(dx * dx + dy * dy)
        returns_early == length = 0
    IN  ~returns_early /\ length = 0

PathRaises(path) ==
    \E k \in 1..(Len(path) - 1) :
        draw_antialiased_line_raises(path[k][1], path[k][2],
                                     path[k + 1][1], path[k + 1][2])

\* generate_figure raises instead of returning an image
generate_figure_raises(v, ar) ==
    \E main \in {IF v = "simple" THEN MainPathSimple(ar) ELSE MainPathAngle(ar)} :
        \E add \in {IF v = "simple" THEN AdditionalPathSimple(ar)
                     ELSE AdditionalPathAngle(ar)} :
            PathRaises(main) \/ PathRaises(add)

\* img.save(filepath, 'PNG'): the file is created or overwritten
SaveFile(files, name) ==
    IF \E k \in 1..Len(files) : files[k] = name THEN files ELSE Append(files, name)


----------------------------------------------------------------------------
(* create_collages.main.                                                   *)

\* the options create_collages.py declares, and argparse's own --help
CollageOptions ==
    { [long |-> "--help", short |-> "-h", dest |-> "help"],
      [long |-> "--grid_size", short |-> "-g", dest |-> "grid_size"],
      [long |-> "--images_folder", short |-> "-i", dest |-> "images_folder"],
      [long |-> "--output_folder", short |-> "-o", dest |-> "output_folder"],
      [long |-> "--flip_hor", short |-> "", dest |-> "flip_hor"],
      [long |-> "--flip_ver", short |-> "", dest |-> "flip_ver"],
      [long |-> "--select_only_from", short |-> "-s", dest |-> "select_only_from"] }

\* argparse: the option a token names: itself, or the one long option it
\* abbreviates; an ambiguous or unknown token is an error
ResolveOption(token, options) ==
    LET exact == {o \in options : o.long = token \/ (o.short # "" /\ o.short = token)}
        abbreviated == {o \in options : startswith(token, "--") /\ startswith(o.long, token)}
    IN  IF exact # {} THEN (CHOOSE o \in exact : TRUE).dest
        ELSE IF Cardinality(abbreviated) = 1 THEN (CHOOSE o \in abbreviated : TRUE).dest
        ELSE "error"

\* argparse storing the value of an option, converted by its type
StoreOption(ns, dest, v) ==
    CASE dest = "grid_size" -> [ns EXCEPT !.grid_size = Some(v)]
      [] dest = "images_folder" -> [ns EXCEPT !.images_folder = Some(v)]
      [] dest = "output_folder" -> [ns EXCEPT !.output_folder = v]
      [] dest = "select_only_from" -> [ns EXCEPT !.select_only_from = Some(v)]
      [] dest = "flip_hor" ->
            IF float(v).raised # "" THEN [ns EXCEPT !.error = TRUE]
            ELSE [ns EXCEPT !.flip_hor = float(v).value]
      [] dest = "flip_ver" ->
            IF float(v).raised # "" THEN [ns EXCEPT !.error = TRUE]
            ELSE [ns EXCEPT !.flip_ver = float(v).value]

RECURSIVE ParseOptions(_, _, _)
ParseOptions(argv, ns, options) ==
    IF argv = << >> \/ ns.error THEN ns
    ELSE LET dest == ResolveOption(Head(argv), options)
         IN  IF dest = "error" THEN [ns EXCEPT !.error = TRUE]
             ELSE IF dest = "help" THEN [ns EXCEPT !.help = TRUE]
             ELSE IF Len(argv) < 2 THEN [ns EXCEPT !.error = TRUE]
             ELSE ParseOptions(Tail(Tail(argv)),
                               StoreOption(ns, dest, argv[2]), options)

\* parser.parse_args(): --grid_size and --images_folder are required
parse_args(argv) ==
    LET ns == ParseOptions(argv, DefaultNamespace, CollageOptions)
    IN  IF ns.help \/ ns.error THEN ns
        ELSE IF ~ns.grid_size.some \/ ~ns.images_folder.some
        THEN [ns EXCEPT !.error = TRUE]
        ELSE ns

\* sys.exit(code)
CollageExit(code) ==
    /\ returncode' = code
    /\ c_pc' = "exited"

\* args = parser.parse_args(): argparse exits with 2 on an error, 0 after --help
C_ParseArgs ==
    /\ c_pc = "start"
    /\ c_args' = parse_args(c_argv)
    /\ IF c_args'.help THEN CollageExit(0)
       ELSE IF c_args'.error THEN CollageExit(2)
       ELSE c_pc' = "validate" /\ UNCHANGED returncode
    /\ UNCHANGED <<figureVars, mainVars, c_argv, c_grid, image_files, collage,
                   broken>>

\* if not 0.0 <= args.flip_hor <= 1.0 ... if not 0.0 <= args.flip_ver <= 1.0
C_ValidateFlip ==
    /\ c_pc = "validate"
    /\ IF ~(0 <= c_args.flip_hor /\ c_args.flip_hor <= 10) THEN CollageExit(1)
       ELSE IF ~(0 <= c_args.flip_ver /\ c_args.flip_ver <= 10) THEN CollageExit(1)
       ELSE c_pc' = "grid" /\ UNCHANGED returncode
    /\ UNCHANGED <<figureVars, mainVars, c_argv, c_args, c_grid, image_files, collage,
                   broken>>

\* cols, rows = parse_grid_size(args.grid_size), ValueError caught
C_ParseGrid ==
    /\ c_pc = "grid"
    /\ LET parsed == parse_grid_size(c_args.grid_size.val)
       IN  IF parsed.raised # ""
           THEN CollageExit(1) /\ UNCHANGED c_grid
           ELSE c_grid' = parsed.value /\ c_pc' = "scan" /\ UNCHANGED returncode
    /\ UNCHANGED <<figureVars, mainVars, c_argv, c_args, image_files, collage,
                   broken>>

isdir(path) == folder.exists /\ path = folder.path

\* the PNG files of the folder, each joined to the folder's path
ListImages(path) ==
    LET png == SelectSeq(folder.files, LAMBDA f : endswith(f, ".png"))
    IN  [k \in 1..Len(png) |-> path \o "/" \o png[k]]

\* the isdir check and the scan for PNG files
C_Scan ==
    /\ c_pc = "scan"
    /\ IF ~isdir(c_args.images_folder.val)
       THEN CollageExit(1) /\ UNCHANGED image_files
       ELSE /\ image_files' = ListImages(c_args.images_folder.val)
            /\ IF image_files' = << >> THEN CollageExit(1)
               ELSE c_pc' = "filter" /\ UNCHANGED returncode
    /\ UNCHANGED <<figureVars, mainVars, c_argv, c_args, c_grid, collage,
                   broken>>

\* if args.select_only_from: image_files = filter_images_by_params(...)
C_Filter ==
    /\ c_pc = "filter"
    /\ image_files' = IF Truthy(c_args.select_only_from)
                      THEN filter_images_by_params(image_files, c_args.select_only_from)
                      ELSE image_files
    /\ IF image_files' = << >> THEN CollageExit(1)
       ELSE c_pc' = "collage" /\ UNCHANGED returncode
    /\ UNCHANGED <<figureVars, mainVars, c_argv, c_args, c_grid, collage,
                   broken>>

\* flip_str and output_filename
OutputFilename(cols, rows, flip_hor, flip_ver) ==
    LET flip_str == IF flip_hor > 0 \/ flip_ver > 0
                    THEN replace("_fh" \o format_2f(flip_hor) \o "_fv"
                                 \o format_2f(flip_ver), ".", "_")
                    ELSE ""
    IN  "collage_" \o str(cols) \o "x" \o str(rows) \o flip_str \o ".png"

\* random.choices(image_paths, k=num_images): the possible selections
choices(image_paths, k) ==
    { [j \in 1..k |-> image_paths[pick[j]]] :
        pick \in [1..k -> 1..Len(image_paths)] }

\* random.random() < p, p in tenths: the possible outcomes
random_below(p) ==
    IF p <= 0 THEN {FALSE} ELSE IF p >= 10 THEN {TRUE} ELSE BOOLEAN

\* the draws of one call of create_collage
RandomDraws(image_paths, num_images, flip_hor, flip_ver) ==
    [selected : choices(image_paths, num_images),
     hor : [1..num_images -> random_below(flip_hor)],
     ver : [1..num_images -> random_below(flip_ver)]]

\* Image.open(img_path) raises
open_raises(img_path) == [path |-> img_path, at |-> "open"] \in broken

\* collage.paste(img, (x, y)) raises
paste_raises(img_path) == [path |-> img_path, at |-> "paste"] \in broken

\* x, y of the cell of index idx, columns and rows exchanged
PasteOffsetTransposed(idx, cols) ==
    << (idx \div cols) * CANVAS_WIDTH, (idx % cols) * CANVAS_HEIGHT >>

\* row = idx // cols, col = idx % cols, x = col * CANVAS_WIDTH,
\* y = row * CANVAS_HEIGHT
PasteOffset(idx, cols) ==
    << (idx % cols) * CANVAS_WIDTH, (idx \div cols) * CANVAS_HEIGHT >>

\* the body of the for loop for one image: the try block opens the image,
\* flips it as drawn (counting the flips) and pastes it, or the except
\* branch leaves the collage as it was
PasteImage(idx, img_path, cols, hor, ver) ==
    [idx |-> idx, path |-> img_path, at |-> PasteOffset(idx, cols),
     flip_hor |-> ~open_raises(img_path) /\ hor,
     flip_ver |-> ~open_raises(img_path) /\ ver,
     pasted |-> ~open_raises(img_path) /\ ~paste_raises(img_path)]

\* the for loop leaving at the first image that raises
PasteLoopBreak(selected_images, cols, hor, ver) ==
    LET all == [k \in 1..Len(selected_images) |->
                   PasteImage(k - 1, selected_images[k], cols, hor[k], ver[k])]
        bad == {k \in 1..Len(all) : ~all[k].pasted}
    IN  IF bad = {} THEN all
        ELSE SubSeq(all, 1, CHOOSE k \in bad : \A j \in bad : k <= j)

\* for idx, img_path in enumerate(selected_images): what each iteration
\* did, in the order of the iterations
PasteLoop(selected_images, cols, hor, ver) ==
    [k \in 1..Len(selected_images) |->
        PasteImage(k - 1, selected_images[k], cols, hor[k], ver[k])]

\* create_collage: the file saved and the value returned
create_collage(image_paths, cols, rows, output_path, flip_hor, flip_ver, rnd) ==
    LET num_images == cols * rows
        collage_width == CANVAS_WIDTH * cols
        collage_height == CANVAS_HEIGHT * rows
    IN  [file |-> [name |-> output_path,
                   size |-> <<collage_width, collage_height>>,
                   cols |-> cols, rows |-> rows,
                   cells |-> PasteLoop(rnd.selected, cols, rnd.hor, rnd.ver)],
         ret |-> TRUE]

\* success = create_collage(...); if success: ... else: sys.exit(1)
C_CreateCollage ==
    /\ c_pc = "collage"
    /\ \E rnd \in RandomDraws(image_files, c_grid[1] * c_grid[2],
                               c_args.flip_hor, c_args.flip_ver) :
          LET output_path == c_args.output_folder \o "/"
                             \o OutputFilename(c_grid[1], c_grid[2],
                                               c_args.flip_hor, c_args.flip_ver)
              success == create_collage(image_files, c_grid[1], c_grid[2],
                                        output_path, c_args.flip_hor,
                                        c_args.flip_ver, rnd)
          IN  /\ collage' = success.file
              /\ IF success.ret THEN CollageExit(0) ELSE CollageExit(1)
    /\ UNCHANGED <<figureVars, mainVars, c_argv, c_args, c_grid, image_files,
                   broken>>

----------------------------------------------------------------------------
(* pipeline.main and the two batch mains.                                  *)

\* default_param_ranges of pipeline.main, in the order of param_names
default_param_ranges ==
    << <<100, 130, 150>>, <<50, 100, 125>>, <<50, 60>>, <<20, 40, 60>>,
       <<20, 30>>, <<20, 40>>, <<15, 30>>, <<3, 6>>,
       <<"#000000", "#222222", "#444444", "#666666">> >>

\* the integer-valued options of the command line, in the order of param_names
IntOptions(cl) == <<cl.a, cl.b, cl.c, cl.d, cl.e, cl.f, cl.g, cl.stroke_width>>

\* parse_range_param raises ValueError on one of the options given
RangesRaise(cl) ==
    \E k \in 1..Len(IntOptions(cl)) :
        /\ Truthy(IntOptions(cl)[k])
        /\ \E part \in {split(IntOptions(cl)[k].val, ",")[j] :
                           j \in 1..Len(split(IntOptions(cl)[k].val, ","))} :
              int(strip(part)).raised # ""

\* default_param_ranges overridden by the options given
OverriddenRanges(cl) ==
    [k \in 1..9 |->
        IF k <= 8
        THEN IF Truthy(IntOptions(cl)[k])
             THEN parse_range_param(IntOptions(cl)[k].val, TRUE)
             ELSE default_param_ranges[k]
        ELSE IF Truthy(cl.stroke_color)
             THEN LET codes == parse_range_param(cl.stroke_color.val, FALSE)
                  IN  [j \in 1..Len(codes) |-> "#" \o codes[j]]
             ELSE default_param_ranges[k]]

\* os.makedirs(path, exist_ok=True)
makedirs(dir) == [dir EXCEPT !.exists = TRUE]

\* generate_figures.main and generate_figures_simple.main up to the loop
BatchStart ==
    /\ prog \in {"generate_figures", "generate_figures_simple"}
    /\ main_pc = "start"
    /\ folder' = makedirs(folder)
    /\ count' = 0
    /\ main_pc' = "loop"
    /\ UNCHANGED <<figureVars, collageVars, prog, cli, param_values, collage_cmd>>

\* pipeline.main up to its loop: the check of the two skip options, the
\* parameter ranges, the output folder
PipelineStart ==
    /\ prog = "pipeline"
    /\ main_pc = "start"
    /\ IF cli.skip_collage /\ cli.skip_generation
       THEN main_pc' = "exit1" /\ UNCHANGED <<param_values, folder, count>>
       ELSE IF cli.skip_generation
       THEN main_pc' = "collage_step" /\ UNCHANGED <<param_values, folder, count>>
       ELSE IF RangesRaise(cli)
       THEN main_pc' = "raised" /\ UNCHANGED <<param_values, folder, count>>
       ELSE /\ param_values' = OverriddenRanges(cli)
            /\ folder' = makedirs(folder)
            /\ count' = 0
            /\ main_pc' = "loop"
    /\ UNCHANGED <<figureVars, collageVars, prog, cli, collage_cmd>>

\* one iteration of for combination in product(*param_values)
Iterate ==
    /\ main_pc = "loop"
    /\ count < Len(product(param_values))
    /\ \E combination \in {product(param_values)[count + 1]} :
       \E ar \in {Unpack(prog, combination)} :
       \E raises \in {generate_figure_raises(VariantOf(prog), ar)} :
          IF raises
          THEN main_pc' = "raised" /\ UNCHANGED <<folder, count>>
          ELSE /\ folder' = [folder EXCEPT
                               !.files = SaveFile(@, Filename(prog, ar))]
               /\ count' = count + 1
               /\ main_pc' = "loop"
    /\ UNCHANGED <<figureVars, collageVars, prog, cli, param_values, collage_cmd>>

\* LoopEnd leaving the loop after any number of iterations
LoopEndEarly ==
    /\ main_pc = "loop"
    /\ main_pc' = IF prog = "pipeline" THEN "collage_step" ELSE "done"
    /\ UNCHANGED <<figureVars, collageVars, prog, cli, param_values, count,
                   folder, collage_cmd>>

\* the loop is exhausted: "Completed! Generated {count} images"
LoopEnd ==
    /\ main_pc = "loop"
    /\ count = Len(product(param_values))
    /\ main_pc' = IF prog = "pipeline" THEN "collage_step" ELSE "done"
    /\ UNCHANGED <<figureVars, collageVars, prog, cli, param_values, count,
                   folder, collage_cmd>>

\* image_count of pipeline.main
ImageCount == Len(SelectSeq(folder.files, LAMBDA f : endswith(f, ".png")))

\* collage_cmd as pipeline.main builds it
BuildCollageCmd(cl) ==
    << "python3", "create_collages.py",
       "--grid_size", cl.grid_size.val,
       "--images_folder", cl.output_folder,
       "--output_folder", cl.collage_output,
       "--flip", str_float(cl.flip) >>
    \o (IF Truthy(cl.select_only_from)
        THEN << "--select_only_from", cl.select_only_from.val >> ELSE << >>)

\* step 2 of pipeline.main up to subprocess.run(collage_cmd)
PipelineCollageStep ==
    /\ main_pc = "collage_step"
    /\ IF cli.skip_collage \/ ~Truthy(cli.grid_size)
       THEN main_pc' = "complete" /\ UNCHANGED <<collage_cmd, c_argv, c_pc>>
       ELSE IF ~isdir(cli.output_folder) \/ ImageCount = 0
       THEN main_pc' = "exit1" /\ UNCHANGED <<collage_cmd, c_argv, c_pc>>
       ELSE /\ collage_cmd' = BuildCollageCmd(cli)
            /\ c_argv' = Tail(Tail(collage_cmd'))
            /\ c_pc' = "start"
            /\ main_pc' = "wait"
    /\ UNCHANGED <<figureVars, prog, cli, param_values, count, folder,
                   c_args, c_grid, image_files, collage, returncode,
                   broken>>

\* subprocess.run returns: "Collage creation failed" and exit 1, or
\* PIPELINE COMPLETE
PipelineWait ==
    /\ main_pc = "wait"
    /\ c_pc = "exited"
    /\ main_pc' = IF returncode # 0 THEN "collage_failed" ELSE "complete"
    /\ UNCHANGED <<figureVars, collageVars, prog, cli, param_values, count,
                   folder, collage_cmd>>

NextScripts ==
    \/ BatchStart
    \/ PipelineStart
    \/ Iterate
    \/ LoopEnd
    \/ PipelineCollageStep
    \/ PipelineWait
    \/ C_ParseArgs
    \/ C_ValidateFlip
    \/ C_ParseGrid
    \/ C_Scan
    \/ C_Filter
    \/ C_CreateCollage

----------------------------------------------------------------------------
(* The scripts run from the command line.                                  *)

MaxGridLen == 4

\* no call of generate_figure is stepped through
NoCall ==
    /\ InitLocals
    /\ pc = [p \in CallIds |-> "idle"]
    /\ variant = [p \in CallIds |-> "simple"]
    /\ args = [p \in CallIds |-> NoArgs]

\* PARAM_RANGES of generate_figures_simple.py, in the order of param_names
SimpleRanges ==
    { <<ra, rb, rc, rd, <<MaxE>>, rf, <<MaxG>>, <<MaxStrokeWidth>>, rcol>> :
        ra \in {<<0>>, <<MaxA \div 2, MaxA>>}, rb \in {<<0>>, <<MaxB>>},
        rc \in {<<0>>, <<MaxC \div 2, MaxC>>}, rd \in {<<0>>, <<MaxD>>},
        rf \in {<<0>>, <<MaxF>>},
        rcol \in {<<"#000000">>, <<"#000000", "#444444">>} }

\* PARAM_RANGES of generate_figures.py, in the order of param_names
AngleRanges ==
    { <<ra, rb, rg, rc, <<290>>, rd, <<MaxE>>, rf, <<MaxH>>, <<MaxStrokeWidth>>>> :
        ra \in {<<0>>, <<MaxA \div 2, MaxA>>}, rb \in {<<0>>, <<MaxB>>},
        rg \in {<<20>>, <<0, 20>>},
        rc \in {<<0>>, <<MaxC \div 2, MaxC>>}, rd \in {<<0>>, <<MaxD>>},
        rf \in {<<0>>, <<MaxF>>} }

\* python3 generate_figures.py, python3 generate_figures_simple.py
InitBatch ==
    /\ prog \in {"generate_figures", "generate_figures_simple"}
    /\ param_values \in (IF prog = "generate_figures" THEN AngleRanges ELSE SimpleRanges)
    /\ folder \in [path : {IF prog = "generate_figures" THEN "./data" ELSE "./data_simple"},
                   exists : BOOLEAN, files : {<< >>}]
    /\ cli = NoCli
    /\ count = 0
    /\ main_pc = "start"
    /\ collage_cmd = << >>
    /\ CollageIdle

\* the output folder before a run of pipeline.py
OldFolders ==
    { [path |-> "./figs", exists |-> FALSE, files |-> << >>],
      [path |-> "./figs", exists |-> TRUE, files |-> << >>],
      [path |-> "./figs", exists |-> TRUE,
       files |-> <<"fig_a100_b50_c50_d20_e20_f20_g15_w3_col000000.png", "notes.txt">>] }

\* command lines of pipeline.py
PipelineClis ==
    [a : {Some("0"), Some("50, 100"), Some("1o0")}, b : {Some("50")},
     c : {None, Some("0")}, d : {Some("20")}, e : {Some("20")}, f : {Some("0")},
     g : {Some("15")}, stroke_width : {Some("3")},
     stroke_color : {Some("000000"), Some("000000,444444")},
     output_folder : {"./figs"}, collage_output : {"./collages"},
     skip_generation : BOOLEAN, skip_collage : BOOLEAN,
     grid_size : {None, Some("2x2"), Some("0x2")}, flip : {0, 5},
     select_only_from : {None, Some("a100")}]

\* python3 pipeline.py ...
InitPipeline ==
    /\ prog = "pipeline"
    /\ cli \in PipelineClis
    /\ folder \in OldFolders
    /\ param_values = << >>
    /\ count = 0
    /\ main_pc = "start"
    /\ collage_cmd = << >>
    /\ CollageIdle

\* the strings of at most n characters of an alphabet
RECURSIVE Strings(_, _)
Strings(alphabet, n) ==
    IF n = 0 THEN {""}
    ELSE Strings(alphabet, n - 1)
         \cup {t \o c : t \in Strings(alphabet, n - 1), c \in alphabet}

GridStrings == Strings({"1", "0", "x", "X", "-", " "}, MaxGridLen)

FilterStrings ==
    {"a" \o str(MaxA), "a" \o str(MaxA \div 10),
     " a" \o str(MaxA) \o " , col444444", "col444444,a" \o str(MaxA),
     "a" \o str(MaxA) \o ",", " ", "w" \o str(MaxStrokeWidth), "b5", "fig"}

\* files of the images folder: figures of both generators, and others
GeneratedArgs ==
    [a : {MaxA \div 10, MaxA, 10 * MaxA}, b : {MaxB}, c : {MaxC}, d : {MaxD},
     e : {MaxE}, f : {MaxF}, g : {MaxG}, y : {0}, h : {0},
     stroke_width : {MaxStrokeWidth}, stroke_color : Colors]

FolderFiles ==
    {Filename("generate_figures_simple", ar) : ar \in GeneratedArgs}
    \cup {"notes.txt", "fig_a" \o str(MaxA) \o ".png"}

ImagesFolders ==
    { [path |-> "./figs_a100_", exists |-> TRUE, files |-> <<f1, f2, f3>>] :
        f1 \in FolderFiles, f2 \in FolderFiles, f3 \in FolderFiles }

\* images that raise: none, a foreign file on opening or on pasting, a
\* generated figure on opening
BrokenSets ==
    { {}, {[path |-> "./figs_a100_/fig_a100.png", at |-> "open"]},
      {[path |-> "./figs_a100_/fig_a100.png", at |-> "paste"]},
      {[path |-> "./figs_a100_/" \o Filename("generate_figures_simple", ar),
        at |-> "open"] :
          ar \in {g \in GeneratedArgs : g.a = MaxA /\ g.stroke_color = "#000000"}} }

\* command lines of create_collages.py: every grid size, and filters and
\* flip options over several folders
CollageArgvs ==
    { <<"--grid_size", gs, "-i", "./figs_a100_">> : gs \in GridStrings }
    \cup { <<"-g", "2x1", "--images_folder", dir, flip, value>> :
             dir \in {"./figs_a100_", "./none"},
             flip \in {"--flip_hor", "--flip_ver", "--flip_h", "--flip"},
             value \in {"0.0", "0.5", "1.5", "half"} }
    \cup { <<"--images_folder", "./figs_a100_", "--help">>, <<"-g", "2x1">> }

CollageFilterArgvs ==
    { <<"-g", "2x1", "-i", "./figs_a100_", "-s", fs>> : fs \in FilterStrings }

\* grids of several columns and several rows over a folder of two images
CollageGridArgvs ==
    { <<"-g", gs, "-i", "./figs_a100_">> : gs \in {"2x2", "3x2", "2x3"} }

TwoImagesFolder ==
    [path |-> "./figs_a100_", exists |-> TRUE,
     files |-> << "fig_a100.png",
                  Filename("generate_figures_simple",
                           [a |-> MaxA, b |-> MaxB, c |-> MaxC, d |-> MaxD,
                            e |-> MaxE, f |-> MaxF, g |-> MaxG, y |-> 0, h |-> 0,
                            stroke_width |-> MaxStrokeWidth,
                            stroke_color |-> "#000000"]) >>]

\* python3 create_collages.py ...
InitCollage ==
    /\ prog = "create_collages"
    /\ \/ /\ c_argv \in CollageArgvs
          /\ folder = [path |-> "./figs_a100_", exists |-> TRUE,
                       files |-> <<"fig_a100.png">>]
       \/ /\ c_argv \in CollageFilterArgvs
          /\ folder \in ImagesFolders
       \/ /\ c_argv \in CollageGridArgvs
          /\ folder = TwoImagesFolder
    /\ broken \in BrokenSets
    /\ cli = NoCli
    /\ param_values = << >>
    /\ count = 0
    /\ main_pc = "idle"
    /\ collage_cmd = << >>
    /\ c_args = DefaultNamespace
    /\ c_pc = "start"
    /\ c_grid = <<0, 0>>
    /\ image_files = << >>
    /\ collage = NoFile
    /\ returncode = -1

InitScripts ==
    /\ NoCall
    /\ \/ InitBatch
       \/ InitPipeline
       \/ InitCollage

SpecScripts == InitScripts /\ [][NextScripts]_vars

\* a for loop that can run its next iteration, or end, does so
SpecScriptsFair == SpecScripts /\ WF_vars(Iterate) /\ WF_vars(LoopEnd)

----------------------------------------------------------------------------
(* Vocabulary of the properties.                                           *)

\* call p has built its two paths
Built(p) ==
    pc[p] \in {"main_lines", "additional_lines", "main_joints",
               "additional_joints", "resize", "convert", "done"}

\* call p has left its four drawing loops
Drawn(p) == pc[p] \in {"resize", "convert", "done"}

\* the draw operations on the image call p holds in img
CanvasOps(p) == IF img[p] = 0 THEN << >> ELSE heap[img[p]].ops

OpsAt(p, site) == SelectSeq(CanvasOps(p), LAMBDA o : o.site = site)

OpsOfKind(p, kind) == SelectSeq(CanvasOps(p), LAMBDA o : o.kind = kind)

\* the endpoints of the segment a polygon was drawn for: its corners are
\* P1 + p, P1 - p, P2 - p, P2 + p
SegStart(o) ==
    << (o.pts[1][1] + o.pts[2][1]) \div 2, (o.pts[1][2] + o.pts[2][2]) \div 2 >>

SegEnd(o) ==
    << (o.pts[3][1] + o.pts[4][1]) \div 2, (o.pts[3][2] + o.pts[4][2]) \div 2 >>

\* twice the centre of an ellipse's bounding box
TwiceCentre(o) == << o.pts[1][1] + o.pts[2][1], o.pts[1][2] + o.pts[2][2] >>

Twice(pt) == << 2 * pt[1], 2 * pt[2] >>

\* the segments of a path, and those of them with distinct endpoints
Segments(path) == [k \in 1..(Len(path) - 1) |-> <<path[k], path[k + 1]>>]

Proper(segs) == SelectSeq(segs, LAMBDA sg : sg[1] # sg[2])

EndPoints(ops) == [k \in 1..Len(ops) |-> <<SegStart(ops[k]), SegEnd(ops[k])>>]

Centres(ops) == [k \in 1..Len(ops) |-> TwiceCentre(ops[k])]

\* a point given in final-resolution units, in supersampled units
Up(pt) == <<SCALE_FACTOR * pt[1], SCALE_FACTOR * pt[2]>>

----------------------------------------------------------------------------
(* C1: for all lengths a, b, c, d the straight-line generate_figure builds *)
(* its main path, before scaling by SCALE_FACTOR, as (150,0), (150,a),     *)
(* (150+c,a+b), (150,a+b), (150,a+b+c), (150-d,a+b+c), (150,a+b+c+d),      *)
(* (150,CANVAS_HEIGHT), in this order: the first point is on the           *)
(* horizontal midpoint of the canvas, the last on its bottom edge.         *)

C1_Unscaled(ar) ==
    << <<150, 0>>,
       <<150, ar.a>>,
       <<150 + ar.c, ar.a + ar.b>>,
       <<150, ar.a + ar.b>>,
       <<150, ar.a + ar.b + ar.c>>,
       <<150 - ar.d, ar.a + ar.b + ar.c>>,
       <<150, ar.a + ar.b + ar.c + ar.d>>,
       <<150, CANVAS_HEIGHT>> >>

C1_SimpleMainPath ==
    \A p \in CallIds :
        (variant[p] = "simple" /\ Built(p)) =>
            /\ points[p] = [k \in 1..8 |-> Up(C1_Unscaled(args[p])[k])]
            /\ 2 * points[p][1][1] = CANVAS_WIDTH * SCALE_FACTOR
            /\ points[p][8][2] = CANVAS_HEIGHT * SCALE_FACTOR

\* the scenario a=100, b=50, c=50, d=20: heights 0,100,150,150,200,200,220,500
C1_Witness ==
    \E p \in CallIds :
        /\ variant[p] = "simple" /\ Built(p)
        /\ args[p].a = 100 /\ args[p].b = 50 /\ args[p].c = 50 /\ args[p].d = 20
        /\ [k \in 1..Len(points[p]) |-> points[p][k][2]]
             = <<0, 1000, 1500, 1500, 2000, 2000, 2200, 5000>>

----------------------------------------------------------------------------
(* C2 (as stated): both builders produce a main path of exactly 7 points   *)
(* and an auxiliary path of exactly 3 points.                              *)

C2_SevenPoints ==
    \A p \in CallIds :
        Built(p) => (Len(points[p]) = 7 /\ Len(additional_points[p]) = 3)

(* C2 (amended): both builders produce a main path of exactly 8 points     *)
(* (7 segments) and an auxiliary path of exactly 3 points; the two         *)
(* variants have the same point counts.                                    *)

C2_EightPoints ==
    \A p \in CallIds :
        Built(p) => (Len(points[p]) = 8 /\ Len(additional_points[p]) = 3)

C2_Witness ==
    \E p \in CallIds :
        /\ variant[p] = "angle" /\ Built(p)
        /\ Len(points[p]) = 8 /\ Len(additional_points[p]) = 3

----------------------------------------------------------------------------
(* C3 (as stated): the draw operations happen in the order main segments,  *)
(* main joint discs, auxiliary segments, auxiliary joint discs; no         *)
(* auxiliary segment is drawn before the last main joint disc.             *)

C3_RankAsStated(site) ==
    CASE site = "main_line"        -> 1
      [] site = "main_joint"       -> 2
      [] site = "additional_line"  -> 3
      [] site = "additional_joint" -> 4

C3_OrderAsStated ==
    \A p \in CallIds :
        \A j \in 1..Len(CanvasOps(p)) : \A k \in j..Len(CanvasOps(p)) :
            C3_RankAsStated(CanvasOps(p)[j].site) <= C3_RankAsStated(CanvasOps(p)[k].site)

(* C3 (amended): the draw operations happen in the order main segments in  *)
(* path order, auxiliary segments, main joint discs in path order,         *)
(* auxiliary joint discs; no joint disc is drawn before the last           *)
(* auxiliary segment.                                                      *)

C3_Rank(site) ==
    CASE site = "main_line"        -> 1
      [] site = "additional_line"  -> 2
      [] site = "main_joint"       -> 3
      [] site = "additional_joint" -> 4

C3_DrawOrder ==
    \A p \in CallIds :
        /\ \A j \in 1..Len(CanvasOps(p)) : \A k \in j..Len(CanvasOps(p)) :
              /\ C3_Rank(CanvasOps(p)[j].site) <= C3_Rank(CanvasOps(p)[k].site)
              /\ CanvasOps(p)[j].kind = "ellipse" => CanvasOps(p)[k].kind = "ellipse"
        /\ Drawn(p) =>
              /\ EndPoints(OpsAt(p, "main_line")) = Proper(Segments(points[p]))
              /\ EndPoints(OpsAt(p, "additional_line"))
                    = Proper(Segments(additional_points[p]))
              /\ Centres(OpsAt(p, "main_joint"))
                    = [k \in 1..Len(points[p]) |-> Twice(points[p][k])]
              /\ Centres(OpsAt(p, "additional_joint"))
                    = [k \in 1..Len(additional_points[p]) |-> Twice(additional_points[p][k])]

\* a finished drawing with segments and discs of both paths
C3_Witness ==
    \E p \in CallIds :
        /\ Drawn(p)
        /\ Len(OpsAt(p, "main_line")) = 7
        /\ Len(OpsAt(p, "additional_line")) = 2
        /\ Len(OpsAt(p, "main_joint")) = 8
        /\ Len(OpsAt(p, "additional_joint")) = 3

----------------------------------------------------------------------------
(* C4: draw_antialiased_line with coincident endpoints fills no polygon    *)
(* (for any width and color), and a generate_figure run whose paths        *)
(* contain zero-length segments still draws every other segment and every  *)
(* joint disc and returns an image.                                        *)

C4_ZeroLengthSkipped ==
    \A p \in CallIds :
        /\ \A k \in 1..Len(CanvasOps(p)) :
              CanvasOps(p)[k].kind = "polygon" =>
                  SegStart(CanvasOps(p)[k]) # SegEnd(CanvasOps(p)[k])
        /\ Drawn(p) =>
              /\ Len(OpsOfKind(p, "polygon"))
                    = Len(Proper(Segments(points[p])))
                      + Len(Proper(Segments(additional_points[p])))
              /\ Len(OpsOfKind(p, "ellipse"))
                    = Len(points[p]) + Len(additional_points[p])
        /\ pc[p] = "done" =>
              /\ ret[p] \in 1..Len(heap)
              /\ heap[ret[p]].ops = CanvasOps(p)

\* a returned figure with a zero-length and a proper segment in each path
C4_Witness ==
    \E p \in CallIds :
        /\ pc[p] = "done"
        /\ args[p].stroke_width > 0
        /\ \E k \in 1..7 : points[p][k] = points[p][k + 1]
        /\ \E k \in 1..7 : points[p][k] # points[p][k + 1]
        /\ additional_points[p][1] = additional_points[p][2]
        /\ additional_points[p][2] # additional_points[p][3]

----------------------------------------------------------------------------
(* C5 (as stated): when every length parameter is 0 and the stroke width   *)
(* is positive, generate_figure fills no segment quadrilateral at all and  *)
(* every joint disc is centred at the origin point (150, 0).               *)

AllLengthsZero(p) ==
    /\ args[p].a = 0 /\ args[p].b = 0 /\ args[p].c = 0 /\ args[p].d = 0
    /\ args[p].e = 0 /\ args[p].f = 0
    /\ IF variant[p] = "simple" THEN args[p].g = 0 ELSE args[p].h = 0

C5_NoQuadrilateral ==
    \A p \in CallIds :
        (pc[p] # "idle" /\ AllLengthsZero(p) /\ args[p].stroke_width > 0) =>
            /\ OpsOfKind(p, "polygon") = << >>
            /\ \A k \in 1..Len(CanvasOps(p)) :
                  CanvasOps(p)[k].kind = "ellipse" =>
                      TwiceCentre(CanvasOps(p)[k]) = Twice(Up(<<150, 0>>))

(* C5 (amended): when every length parameter is 0 and the stroke width is  *)
(* positive, generate_figure fills exactly one segment quadrilateral, the  *)
(* last main segment from (150, 0) straight down to the bottom edge        *)
(* (150, CANVAS_HEIGHT); every other segment is skipped as degenerate, and *)
(* the joint discs are centred at (150, 0) except the disc of the last     *)
(* main point, centred at (150, CANVAS_HEIGHT).                            *)

C5_OnlyFinalDownstroke ==
    \A p \in CallIds :
        (pc[p] # "idle" /\ AllLengthsZero(p) /\ args[p].stroke_width > 0) =>
            /\ \A k \in 1..Len(CanvasOps(p)) :
                  CanvasOps(p)[k].kind = "polygon" =>
                      /\ CanvasOps(p)[k].site = "main_line"
                      /\ SegStart(CanvasOps(p)[k]) = Up(<<150, 0>>)
                      /\ SegEnd(CanvasOps(p)[k]) = Up(<<150, CANVAS_HEIGHT>>)
            /\ Drawn(p) =>
                  /\ Len(OpsOfKind(p, "polygon")) = 1
                  /\ Centres(OpsOfKind(p, "ellipse"))
                        = [k \in 1..11 |->
                             IF k = 8 THEN Twice(Up(<<150, CANVAS_HEIGHT>>))
                                      ELSE Twice(Up(<<150, 0>>))]

C5_Witness ==
    \E p \in CallIds :
        /\ variant[p] = "angle" /\ args[p].g # 0 /\ args[p].y # 0
        /\ AllLengthsZero(p) /\ args[p].stroke_width > 0
        /\ Drawn(p)
        /\ Len(OpsOfKind(p, "polygon")) = 1

----------------------------------------------------------------------------
(* C7: for all parameter sets, generate_figure (both variants) allocates   *)
(* its working canvas at exactly (CANVAS_WIDTH * SCALE_FACTOR) x           *)
(* (CANVAS_HEIGHT * SCALE_FACTOR) and returns an image of exactly          *)
(* CANVAS_WIDTH x CANVAS_HEIGHT = 300 x 500 pixels in RGB mode.            *)

C7_CanvasSizes ==
    \A p \in CallIds :
        /\ pc[p] \in {"build", "main_lines", "additional_lines", "main_joints",
                      "additional_joints", "resize"} =>
              /\ heap[img[p]].size = <<CANVAS_WIDTH * SCALE_FACTOR,
                                       CANVAS_HEIGHT * SCALE_FACTOR>>
              /\ heap[img[p]].mode = "RGBA"
        /\ pc[p] = "done" =>
              /\ heap[ret[p]].size = <<300, 500>>
              /\ heap[ret[p]].size = <<CANVAS_WIDTH, CANVAS_HEIGHT>>
              /\ heap[ret[p]].mode = "RGB"

\* both variants have returned, for largest and for zero arguments
C7_Witness ==
    \E p \in CallIds :
        /\ pc[p] = "done" /\ variant[p] = "angle"
        /\ args[p].a = MaxA /\ args[p].d = MaxD /\ args[p].stroke_width = MaxStrokeWidth
        /\ heap[ret[p]].size = <<300, 500>>

----------------------------------------------------------------------------
(* C8: generate_figure is deterministic: two runs with the same parameter  *)
(* set issue the same sequence of draw operations (same polygons, same     *)
(* discs, same colors, same order) and return identical images.            *)

IsPrefix(s, t) == Len(s) <= Len(t) /\ SubSeq(t, 1, Len(s)) = s

C8_Deterministic ==
    (variant[1] = variant[2] /\ args[1] = args[2]) =>
        /\ IsPrefix(CanvasOps(1), CanvasOps(2)) \/ IsPrefix(CanvasOps(2), CanvasOps(1))
        /\ (pc[1] = "done" /\ pc[2] = "done") => heap[ret[1]] = heap[ret[2]]

\* two runs with the same parameter set have both returned a drawn figure
C8_Witness ==
    /\ variant[1] = variant[2] /\ args[1] = args[2]
    /\ pc[1] = "done" /\ pc[2] = "done"
    /\ ret[1] # ret[2]
    /\ Len(heap[ret[1]].ops) > 11

----------------------------------------------------------------------------
(* C9: two generate_figure invocations running concurrently, with any      *)
(* interleaving of their steps, each produce the image they produce when   *)
(* run alone: every draw operation of a call writes only to the canvas     *)
(* that call allocated, and no module-level state is modified.             *)

RECURSIVE PathLines(_, _, _, _)
PathLines(path, w, col, site) ==
    IF Len(path) < 2 THEN << >>
    ELSE At(draw_antialiased_line(path[1][1], path[1][2], path[2][1], path[2][2], w, col),
            site)
         \o PathLines(Tail(path), w, col, site)

PathJoints(path, w, col, site) ==
    [k \in 1..Len(path) |-> At(<< JointDisc(path[k], w, col) >>, site)[1]]

\* the draw operations of a call run on its own
SoloOps(v, ar) ==
    LET main == IF v = "simple" THEN MainPathSimple(ar) ELSE MainPathAngle(ar)
        add == IF v = "simple" THEN AdditionalPathSimple(ar) ELSE AdditionalPathAngle(ar)
        w == ar.stroke_width * SCALE_FACTOR
        col == IF v = "simple" THEN ar.stroke_color ELSE "black"
    IN  PathLines(main, w, col, "main_line") \o PathLines(add, w, col, "additional_line")
        \o PathJoints(main, w, col, "main_joint")
        \o PathJoints(add, w, col, "additional_joint")

C9_Isolated ==
    /\ globals = InitGlobals
    /\ (img[1] # 0 /\ img[2] # 0) => img[1] # img[2]
    /\ \A p \in CallIds :
          /\ IsPrefix(CanvasOps(p), SoloOps(variant[p], args[p]))
          /\ Drawn(p) => CanvasOps(p) = SoloOps(variant[p], args[p])
          /\ pc[p] = "done" =>
                heap[ret[p]] = [mode |-> "RGB", size |-> <<CANVAS_WIDTH, CANVAS_HEIGHT>>,
                                ops |-> SoloOps(variant[p], args[p])]

\* both calls are in the middle of their drawing loops, with different inputs
C9_Witness ==
    /\ pc[1] = "main_joints" /\ pc[2] = "additional_lines"
    /\ variant[1] # variant[2]
    /\ Len(CanvasOps(1)) > 0 /\ Len(CanvasOps(2)) > 0
    /\ img[1] = 2 /\ img[2] = 1

----------------------------------------------------------------------------
(* C10: exactly one filled disc is drawn for each vertex of the main path  *)
(* and each vertex of the auxiliary path, centred on that vertex, with     *)
(* diameter equal to the scaled stroke width (bounding box vertex - w/2 to *)
(* vertex + w/2 on both axes) and in the same color as the segments.       *)

C10_JointDiscs ==
    \A p \in CallIds :
        Drawn(p) =>
            LET discs == OpsOfKind(p, "ellipse")
                verts == points[p] \o additional_points[p]
                w == args[p].stroke_width * SCALE_FACTOR
            IN  /\ Len(discs) = Len(verts)
                /\ \A k \in 1..Len(discs) :
                      /\ 2 * discs[k].pts[1][1] = 2 * verts[k][1] - w
                      /\ 2 * discs[k].pts[1][2] = 2 * verts[k][2] - w
                      /\ 2 * discs[k].pts[2][1] = 2 * verts[k][1] + w
                      /\ 2 * discs[k].pts[2][2] = 2 * verts[k][2] + w
                /\ \A j \in 1..Len(CanvasOps(p)) : \A k \in 1..Len(CanvasOps(p)) :
                      CanvasOps(p)[j].fill = CanvasOps(p)[k].fill

\* a drawn figure with 11 discs of positive diameter and all 9 segments
C10_Witness ==
    \E p \in CallIds :
        /\ Drawn(p) /\ variant[p] = "simple" /\ args[p].stroke_color = "#444444"
        /\ args[p].stroke_width > 0
        /\ Len(OpsOfKind(p, "ellipse")) = 11
        /\ Len(OpsOfKind(p, "polygon")) = 9

----------------------------------------------------------------------------
(* C11 (as stated): in the angle-based generate_figure, for all inputs     *)
(* including an angle g that is not consistent with d and b, the point     *)
(* after the snap-back lies on the midline at the height of the turned     *)
(* segment's endpoint, and the next point lies exactly c (scaled) below    *)
(* that snap-back point.                                                   *)

C11_SnapBackThenDescendC ==
    \A p \in CallIds :
        (variant[p] = "angle" /\ Built(p)) =>
            /\ points[p][4] = <<X_CENTER * SCALE_FACTOR, points[p][3][2]>>
            /\ points[p][5] = <<points[p][4][1],
                                points[p][4][2] + args[p].c * SCALE_FACTOR>>

----------------------------------------------------------------------------
(* C12: in the angle-based builder, when g is the angle whose sine is d/q  *)
(* and cosine is b/q (q = sqrt(d^2 + b^2)), the turned segment's endpoint  *)
(* lies within a tolerance (one supersampled pixel) of                     *)
(* (x_center + d, a + b).                                                  *)

Near(u, v) == (u - v) \in -1..1

\* sin g : cos g = d : b with both non-negative, i.e. sin g = d/q and cos g = b/q
MatchedAngle(g, d, b) ==
    /\ Sin1000(g) >= 0 /\ Cos1000(g) >= 0
    /\ d * Cos1000(g) = b * Sin1000(g)

C12_TurnedEndpoint ==
    \A p \in CallIds :
        (variant[p] = "angle" /\ Built(p)
            /\ MatchedAngle(args[p].g, args[p].d, args[p].b)) =>
            /\ Near(points[p][3][1], SCALE_FACTOR * (X_CENTER + args[p].d))
            /\ Near(points[p][3][2], SCALE_FACTOR * (args[p].a + args[p].b))

\* a matched diagonal turn: g = 45 degrees with d = b > 0
C12_Witness ==
    \E p \in CallIds :
        /\ variant[p] = "angle" /\ Built(p)
        /\ args[p].g = 45 /\ args[p].d = args[p].b /\ args[p].d > 0
        /\ MatchedAngle(args[p].g, args[p].d, args[p].b)
        /\ points[p][3][1] > X_CENTER * SCALE_FACTOR

----------------------------------------------------------------------------
(* C13: in the angle-based generate_figure the path moves left from        *)
(* (x_center, a+b+c) to (x_center - d, a+b+c) at constant height, then to  *)
(* a point at distance d from there in the direction given by angle -y     *)
(* from straight-down, and the final point has the same x as that point    *)
(* and y equal to the bottom edge.  Distances and directions hold to one   *)
(* supersampled pixel, the rounding of this model.                         *)

C13_LeftTurnDown ==
    \A p \in CallIds :
        (variant[p] = "angle" /\ Built(p)) =>
            LET d_s == args[p].d * SCALE_FACTOR
                dx == points[p][7][1] - points[p][6][1]
                dy == points[p][7][2] - points[p][6][2]
            IN  /\ points[p][5] = Up(<<X_CENTER, args[p].a + args[p].b + args[p].c>>)
                /\ points[p][6] = Up(<<X_CENTER - args[p].d,
                                       args[p].a + args[p].b + args[p].c>>)
                /\ Near(Sqrt(dx * dx + dy * dy), d_s)
                /\ Near(dx, RoundDiv(-(d_s * Sin1000(args[p].y)), 1000))
                /\ Near(dy, RoundDiv(d_s * Cos1000(args[p].y), 1000))
                /\ points[p][8] = <<points[p][7][1], CANVAS_HEIGHT * SCALE_FACTOR>>

\* a turn of y = 290 degrees with d > 0: the point lies right of and below the turn
C13_Witness ==
    \E p \in CallIds :
        /\ variant[p] = "angle" /\ Built(p)
        /\ args[p].y = 290 /\ args[p].d = MaxD
        /\ points[p][7][1] > points[p][6][1]
        /\ points[p][7][2] > points[p][6][2]
        /\ points[p][8][1] = points[p][7][1]

----------------------------------------------------------------------------
(* C14: in both variants the auxiliary path is the three points            *)
(* (150-e, a), (150-e-f, a), (150-e, a+v) scaled by SCALE_FACTOR, where v  *)
(* is g in the straight-line variant and h in the angle variant; it is     *)
(* drawn as exactly two segments (first to second, second to third) and    *)
(* no segment joins it to the main path.                                   *)

C14_Unscaled(v, ar) ==
    LET down == IF v = "simple" THEN ar.g ELSE ar.h
    IN  << <<150 - ar.e, ar.a>>,
           <<150 - ar.e - ar.f, ar.a>>,
           <<150 - ar.e, ar.a + down>> >>

C14_AuxiliaryPath ==
    \A p \in CallIds :
        /\ Built(p) =>
              additional_points[p]
                 = [k \in 1..3 |-> Up(C14_Unscaled(variant[p], args[p])[k])]
        /\ Drawn(p) =>
              LET aux == additional_points[p]
              IN  /\ EndPoints(OpsAt(p, "additional_line"))
                        = Proper(<< <<aux[1], aux[2]>>, <<aux[2], aux[3]>> >>)
                  /\ EndPoints(OpsOfKind(p, "polygon"))
                        = Proper(Segments(points[p])) \o Proper(Segments(aux))

\* a drawn angle-variant figure whose two auxiliary segments have positive
\* length, with h different from g
C14_Witness ==
    \E p \in CallIds :
        /\ Drawn(p) /\ variant[p] = "angle"
        /\ args[p].f > 0 /\ args[p].h > 0 /\ args[p].h # args[p].g
        /\ Len(OpsAt(p, "additional_line")) = 2
        /\ additional_points[p][3][2] = SCALE_FACTOR * (args[p].a + args[p].h)

----------------------------------------------------------------------------
(* C20: within one generate_figure run every segment quadrilateral and     *)
(* every joint disc uses the same width stroke_width*SCALE_FACTOR (the     *)
(* quadrilateral's end edges, to two supersampled pixels of rounding) and  *)
(* the same fill color: the caller's stroke_color in the straight-line     *)
(* variant, black in the angle variant.                                    *)

C20_EdgeLength(q1, q2) ==
    Sqrt((q1[1] - q2[1]) * (q1[1] - q2[1]) + (q1[2] - q2[2]) * (q1[2] - q2[2]))

C20_UniformStroke ==
    \A p \in CallIds :
        Drawn(p) => \A k \in 1..Len(CanvasOps(p)) :
            LET o == CanvasOps(p)[k]
                w == args[p].stroke_width * SCALE_FACTOR
            IN  /\ o.kind = "polygon" =>
                      /\ (C20_EdgeLength(o.pts[1], o.pts[2]) - w) \in -2..2
                      /\ (C20_EdgeLength(o.pts[3], o.pts[4]) - w) \in -2..2
                /\ o.kind = "ellipse" =>
                      /\ o.pts[2][1] - o.pts[1][1] = w
                      /\ o.pts[2][2] - o.pts[1][2] = w
                /\ variant[p] = "simple" => o.fill = args[p].stroke_color
                /\ variant[p] = "angle" => o.fill = "black"

\* a drawn straight-line figure in a color other than black, with diagonal
\* segments and a positive width
C20_Witness ==
    \E p \in CallIds :
        /\ Drawn(p) /\ variant[p] = "simple"
        /\ args[p].stroke_color = "#444444" /\ args[p].stroke_width = MaxStrokeWidth
        /\ args[p].b > 0 /\ args[p].c > 0
        /\ \E k \in 1..Len(CanvasOps(p)) :
              /\ CanvasOps(p)[k].kind = "polygon"
              /\ CanvasOps(p)[k].pts[1][1] # CanvasOps(p)[k].pts[2][1]
              /\ CanvasOps(p)[k].pts[1][2] # CanvasOps(p)[k].pts[2][2]

----------------------------------------------------------------------------
(* C15: each batch main loop (generate_figures.main,                       *)
(* generate_figures_simple.main, the generation step of pipeline.main)     *)
(* terminates after rendering and saving exactly one figure per element of *)
(* the Cartesian product of the parameter value lists, so the final count  *)
(* equals the product of the list lengths; a combination that yields       *)
(* zero-length segments does not stop the loop.                            *)

RECURSIVE C15_LengthsProduct(_)
C15_LengthsProduct(lists) ==
    IF lists = << >> THEN 1 ELSE Len(Head(lists)) * C15_LengthsProduct(Tail(lists))

C15_LoopLeft ==
    main_pc \in {"done", "collage_step", "wait", "complete", "exit1", "collage_failed"}

C15_AllSaved ==
    \A k \in 1..Len(product(param_values)) :
        \E j \in 1..Len(folder.files) :
            folder.files[j] = Filename(prog, Unpack(prog, product(param_values)[k]))

C15_BatchLoopCompletes ==
    (main_pc = "loop")
        ~> (/\ C15_LoopLeft
            /\ count = C15_LengthsProduct(param_values)
            /\ C15_AllSaved)

\* a finished batch of several figures whose first combination has a = 0
\* and f = 0: zero-length segments on both paths
C15_Witness ==
    /\ prog = "generate_figures_simple" /\ main_pc = "done"
    /\ count = C15_LengthsProduct(param_values) /\ count > 2
    /\ LET ar == Unpack(prog, product(param_values)[1])
       IN  /\ ar.a = 0 /\ ar.f = 0
           /\ Len(PathLines(MainPathSimple(ar), 30, "black", "main_line")) < 7
           /\ \E j \in 1..Len(folder.files) : folder.files[j] = Filename(prog, ar)

----------------------------------------------------------------------------
(* C16 (as stated): when pipeline.main runs its collage step (collage not  *)
(* skipped and --grid_size given), the command it launches is accepted by  *)
(* create_collages.py and applies the pipeline's --flip probability as the *)
(* per-image horizontal flip probability, so that a run with valid inputs  *)
(* reaches PIPELINE COMPLETE rather than the collage-failed exit.          *)

C16_ValidInputs ==
    /\ parse_grid_size(cli.grid_size.val).raised = ""
    /\ 0 <= cli.flip /\ cli.flip <= 10
    /\ filter_images_by_params(ListImages(cli.output_folder),
                               cli.select_only_from) # << >>

C16_CollageCommandAccepted ==
    (prog = "pipeline" /\ collage_cmd # << >> /\ C16_ValidInputs) =>
        /\ main_pc # "collage_failed"
        /\ c_pc = "exited" =>
              /\ returncode = 0
              /\ c_args.flip_hor = cli.flip

----------------------------------------------------------------------------
(* C17: in every run of pipeline.main: if both --skip_collage and          *)
(* --skip_generation are set it exits with an error before any figure is   *)
(* generated or any collage command is launched; with --skip_generation no *)
(* figure is generated; with --skip_collage or without --grid_size no      *)
(* collage command is launched; and when both steps run, the collage       *)
(* command is launched only after every figure of the batch is saved.      *)

C17_NoFigure == main_pc # "loop" /\ count = 0 /\ param_values = << >>

C17_NoCommand == collage_cmd = << >> /\ c_pc = "idle" /\ main_pc # "wait"

C17_StepOrder ==
    prog = "pipeline" =>
        /\ (cli.skip_collage /\ cli.skip_generation) =>
              /\ main_pc \in {"start", "exit1"}
              /\ C17_NoFigure /\ C17_NoCommand
        /\ cli.skip_generation => C17_NoFigure
        /\ (cli.skip_collage \/ ~Truthy(cli.grid_size)) => C17_NoCommand
        /\ (collage_cmd # << >> /\ ~cli.skip_generation) =>
              /\ count = C15_LengthsProduct(param_values)
              /\ C15_AllSaved

\* both steps ran: the command was launched with all four figures saved
C17_Witness ==
    /\ prog = "pipeline" /\ ~cli.skip_generation /\ ~cli.skip_collage
    /\ collage_cmd # << >> /\ c_pc = "start"
    /\ count = 4 /\ Len(folder.files) >= 4

----------------------------------------------------------------------------
(* C18: filter_images_by_params returns, in input order, exactly those     *)
(* paths whose basename contains, for every comma-separated filter token t *)
(* (whitespace-stripped), the substring '_t_' or '_t.'; an empty or None   *)
(* filter returns the input list unchanged; so the filter 'a100' selects   *)
(* only images generated with a = 100.                                     *)

C18_Tokens(filter_params) ==
    {strip(split(filter_params, ",")[k]) : k \in 1..Len(split(filter_params, ","))}

C18_Selected(path, filter_params) ==
    \A t \in C18_Tokens(filter_params) :
        \/ Contains(basename(path), "_" \o t \o "_")
        \/ Contains(basename(path), "_" \o t \o ".")

C18_GeneratedWithA(path, a) ==
    \E ar \in GeneratedArgs :
        basename(path) = Filename("generate_figures_simple", ar) /\ ar.a = a

C18_Generated(path) ==
    \E ar \in GeneratedArgs : basename(path) = Filename("generate_figures_simple", ar)

C18_FilterStep ==
    (c_pc = "filter" /\ Truthy(c_args.select_only_from)) =>
        /\ image_files' = SelectSeq(image_files,
                LAMBDA path : C18_Selected(path, c_args.select_only_from.val))
        /\ filter_images_by_params(image_files, None) = image_files
        /\ filter_images_by_params(image_files, Some("")) = image_files
        /\ c_args.select_only_from.val = "a" \o str(MaxA) =>
              \A j \in 1..Len(image_files) :
                  C18_Generated(image_files[j]) =>
                      ((\E k \in 1..Len(image_files') : image_files'[k] = image_files[j])
                          <=> C18_GeneratedWithA(image_files[j], MaxA))

C18_FilterSelects == [][C18_FilterStep]_vars

\* the filter a100 kept some images of the folder and dropped others
C18_Witness ==
    /\ c_pc = "collage" /\ c_args.select_only_from = Some("a" \o str(MaxA))
    /\ Len(image_files) >= 1
    /\ Len(image_files) < Len(ListImages(c_args.images_folder.val))
    /\ \E j \in 1..Len(ListImages(c_args.images_folder.val)) :
          C18_GeneratedWithA(ListImages(c_args.images_folder.val)[j], MaxA \div 10)

----------------------------------------------------------------------------
(* C19: parse_grid_size either returns a pair (cols, rows) of integers     *)
(* with cols > 0 and rows > 0, parsed from a string of the form            *)
(* 'COLSxROWS' (case-insensitive x), or raises ValueError; it never        *)
(* returns a zero or negative dimension and never returns for a string     *)
(* with other than two 'x'-separated parts.                                *)

C19_CountX(grid_str) ==
    Cardinality({k \in 1..Len(grid_str) : Ch(grid_str, k) \in {"x", "X"}})

\* digits, an x, digits, with a nonzero digit on either side
C19_Canonical(grid_str) ==
    /\ C19_CountX(grid_str) = 1
    /\ \E k \in 2..(Len(grid_str) - 1) :
          /\ Ch(grid_str, k) \in {"x", "X"}
          /\ \A j \in (1..Len(grid_str)) \ {k} : Find(DigitChars, Ch(grid_str, j)) # 0
          /\ \E j \in 1..(k - 1) : Ch(grid_str, j) \in {"1", "2", "3", "4", "5", "6", "7", "8", "9"}
          /\ \E j \in (k + 1)..Len(grid_str) : Ch(grid_str, j) \in {"1", "2", "3", "4", "5", "6", "7", "8", "9"}

\* main has gone past cols, rows = parse_grid_size(args.grid_size)
C19_Returned ==
    c_pc \in {"scan", "filter", "collage"} \/ (c_pc = "exited" /\ returncode = 0 /\ ~c_args.help)

C19_GridSize ==
    /\ C19_Returned =>
          LET grid_str == c_args.grid_size.val
              k == Find(lower(grid_str), "x")
          IN  /\ c_grid[1] > 0 /\ c_grid[2] > 0
              /\ C19_CountX(grid_str) = 1
              /\ c_grid = << int(SubSeq(grid_str, 1, k - 1)).value,
                             int(From(grid_str, k + 1)).value >>
    /\ (c_pc = "exited" /\ ~c_args.error /\ ~c_args.help /\ c_grid = <<0, 0>>
          /\ c_args.flip_hor = 0 /\ c_args.flip_ver = 0) =>
          ~C19_Canonical(c_args.grid_size.val)

\* " 1X10"-like input: an upper-case X and a two-digit dimension
C19_Witness ==
    /\ C19_Returned
    /\ Contains(c_args.grid_size.val, "X")
    /\ c_grid[2] = 10 /\ c_grid[1] = 1

----------------------------------------------------------------------------
(* C21: for a segment with distinct endpoints P1, P2 and width w,          *)
(* draw_antialiased_line fills exactly one quadrilateral with corners      *)
(* P1+p, P1-p, P2-p, P2+p in that order, where p is perpendicular to P2-P1 *)
(* and has length w/2 (to the rounding of integer coordinates); for a      *)
(* vertical segment at x this is the rectangle from x-w/2 to x+w/2         *)
(* spanning y1..y2, and for a horizontal segment at y the rectangle from   *)
(* y-w/2 to y+w/2 spanning x1..x2.                                         *)

C21_Abs(n) == IF n < 0 THEN -n ELSE n

\* the quadrilateral o is the one of the segment from P1 to P2 of width w
C21_QuadOf(o, P1, P2, w) ==
    LET px == o.pts[1][1] - P1[1]
        py == o.pts[1][2] - P1[2]
        dx == P2[1] - P1[1]
        dy == P2[2] - P1[2]
    IN  /\ o.kind = "polygon"
        /\ o.pts = << <<P1[1] + px, P1[2] + py>>, <<P1[1] - px, P1[2] - py>>,
                      <<P2[1] - px, P2[2] - py>>, <<P2[1] + px, P2[2] + py>> >>
        /\ C21_Abs(px * dx + py * dy) <= C21_Abs(dx) + C21_Abs(dy)
        /\ (2 * Sqrt(px * px + py * py) - w) \in -2..2
        /\ dx = 0 =>
              /\ {o.pts[k][1] : k \in 1..4} \subseteq {P1[1] - w \div 2, P1[1] + w \div 2}
              /\ C21_Abs(px) = w \div 2 /\ py = 0
              /\ {o.pts[k][2] : k \in 1..4} \subseteq {P1[2], P2[2]}
        /\ dy = 0 =>
              /\ {o.pts[k][2] : k \in 1..4} \subseteq {P1[2] - w \div 2, P1[2] + w \div 2}
              /\ C21_Abs(py) = w \div 2 /\ px = 0
              /\ {o.pts[k][1] : k \in 1..4} \subseteq {P1[1], P2[1]}

C21_OneQuadPerSegment(ops, segs, w) ==
    /\ Len(ops) = Len(segs)
    /\ \A k \in 1..Len(ops) : C21_QuadOf(ops[k], segs[k][1], segs[k][2], w)

C21_Quadrilateral ==
    \A p \in CallIds :
        Drawn(p) =>
            /\ C21_OneQuadPerSegment(OpsAt(p, "main_line"),
                                     Proper(Segments(points[p])),
                                     args[p].stroke_width * SCALE_FACTOR)
            /\ C21_OneQuadPerSegment(OpsAt(p, "additional_line"),
                                     Proper(Segments(additional_points[p])),
                                     args[p].stroke_width * SCALE_FACTOR)

\* a drawn figure of positive width with vertical, horizontal and diagonal
\* segments of positive length
C21_Witness ==
    \E p \in CallIds :
        /\ Drawn(p) /\ variant[p] = "simple" /\ args[p].stroke_width > 0
        /\ Len(OpsAt(p, "main_line")) = 7
        /\ Len(OpsAt(p, "additional_line")) = 2
        /\ \E k \in 1..7 :
              LET o == OpsAt(p, "main_line")[k]
              IN  o.pts[1][1] # o.pts[2][1] /\ o.pts[1][2] # o.pts[2][2]
        /\ \E k \in 1..7 :
              LET o == OpsAt(p, "main_line")[k]
              IN  o.pts[1][1] # o.pts[2][1] /\ o.pts[1][2] = o.pts[2][2]
        /\ \E k \in 1..7 :
              LET o == OpsAt(p, "main_line")[k]
              IN  o.pts[1][1] = o.pts[2][1] /\ o.pts[1][2] # o.pts[2][2]

----------------------------------------------------------------------------
(* C22: create_collage with cols > 0 and rows > 0 selects exactly          *)
(* cols*rows images (with replacement) and pastes the image of index idx   *)
(* at pixel offset ((idx mod cols)*CANVAS_WIDTH,                           *)
(* (idx div cols)*CANVAS_HEIGHT); the cols*rows cells are pairwise         *)
(* non-overlapping, all lie inside the (CANVAS_WIDTH*cols) x               *)
(* (CANVAS_HEIGHT*rows) collage, and together cover it exactly.            *)

\* create_collage has run: the collage file is written
C22_Created == collage # NoFile

\* the cell of an iteration: CANVAS_WIDTH x CANVAS_HEIGHT pixels at its offset
C22_Cell(c) ==
    [x0 |-> c.at[1], y0 |-> c.at[2],
     x1 |-> c.at[1] + CANVAS_WIDTH, y1 |-> c.at[2] + CANVAS_HEIGHT]

C22_Overlap(r, q) ==
    r.x0 < q.x1 /\ q.x0 < r.x1 /\ r.y0 < q.y1 /\ q.y0 < r.y1

C22_Inside(r, size) ==
    0 <= r.x0 /\ r.x1 <= size[1] /\ 0 <= r.y0 /\ r.y1 <= size[2]

C22_GridCells ==
    C22_Created =>
        LET cols == c_grid[1]
            rows == c_grid[2]
            cells == collage.cells
            n == Len(cells)
        IN  /\ cols > 0 /\ rows > 0
            /\ n = cols * rows
            /\ collage.size = <<CANVAS_WIDTH * cols, CANVAS_HEIGHT * rows>>
            /\ \A k \in 1..n :
                  /\ cells[k].idx = k - 1
                  /\ \E j \in 1..Len(image_files) : cells[k].path = image_files[j]
                  /\ cells[k].at = << ((k - 1) % cols) * CANVAS_WIDTH,
                                      ((k - 1) \div cols) * CANVAS_HEIGHT >>
                  /\ C22_Inside(C22_Cell(cells[k]), collage.size)
            /\ \A k \in 1..n : \A j \in 1..n :
                  k # j => ~C22_Overlap(C22_Cell(cells[k]), C22_Cell(cells[j]))
            \* disjoint cells inside the collage whose areas add up to its
            \* area cover it exactly
            /\ n * CANVAS_WIDTH * CANVAS_HEIGHT = collage.size[1] * collage.size[2]

\* a collage of several columns and several rows in which one image was
\* selected twice and another one too
C22_Witness ==
    /\ C22_Created
    /\ c_grid[1] > 1 /\ c_grid[2] > 1 /\ c_grid[1] # c_grid[2]
    /\ \E k \in 1..Len(collage.cells) : \E j \in 1..Len(collage.cells) :
          /\ k # j /\ collage.cells[k].path = collage.cells[j].path
          /\ collage.cells[k].pasted /\ collage.cells[j].pasted
    /\ \E k \in 1..Len(collage.cells) : \E j \in 1..Len(collage.cells) :
          collage.cells[k].path # collage.cells[j].path

----------------------------------------------------------------------------
(* C23: in create_collage, an image that fails to load or paste leaves its *)
(* own cell background white and changes nothing else: every other cell   *)
(* is still processed in index order, the collage is saved, and the        *)
(* function returns True, so the caller's 'Failed to create collage'       *)
(* branch (exit status 1) is never taken.                                  *)

\* the image raises inside the try block
C23_Fails(path) == open_raises(path) \/ paste_raises(path)

\* what the saved collage shows at an offset: the last image pasted there,
\* or the white background
C23_Shown(at) ==
    LET on == {k \in 1..Len(collage.cells) :
                  collage.cells[k].pasted /\ collage.cells[k].at = at}
    IN  IF on = {} THEN "white"
        ELSE collage.cells[CHOOSE k \in on : \A j \in on : j <= k].path

C23_FailedImageSkipped ==
    C22_Created =>
        LET cells == collage.cells
        IN  \* every cell is processed, in index order
            /\ Len(cells) = c_grid[1] * c_grid[2]
            /\ \A k \in 1..Len(cells) :
                  /\ cells[k].idx = k - 1
                  /\ cells[k].at = PasteOffset(k - 1, c_grid[1])
                  \* a failing image leaves its cell white, any other image
                  \* is shown in its cell whatever failed before or after it
                  /\ C23_Shown(cells[k].at) = IF C23_Fails(cells[k].path)
                                              THEN "white" ELSE cells[k].path
            \* the collage is saved and main ends without sys.exit(1)
            /\ collage.name = c_args.output_folder \o "/"
                              \o OutputFilename(c_grid[1], c_grid[2],
                                                c_args.flip_hor, c_args.flip_ver)
            /\ c_pc = "exited" /\ returncode = 0

\* a collage in which an image that failed on opening stands between two
\* images that were pasted
C23_Witness ==
    /\ C22_Created
    /\ \E k \in 2..(Len(collage.cells) - 1) :
          /\ open_raises(collage.cells[k].path)
          /\ collage.cells[k - 1].pasted /\ collage.cells[k + 1].pasted
          /\ C23_Shown(collage.cells[k].at) = "white"

\* a collage in which an image failed on pasting, after it was flipped
C23_WitnessPaste ==
    /\ C22_Created
    /\ \E k \in 1..Len(collage.cells) :
          /\ paste_raises(collage.cells[k].path)
          /\ collage.cells[k].flip_hor
          /\ ~collage.cells[k].pasted

====
